---- MODULE Spec2Model ----
(***************************************************************************)
(* Verification model of javor454/balancer.                                *)
(*                                                                         *)
(* The subsystems are modelled each with its own specification:           *)
(*   - the reverse proxy pool (server.ProxyServerPool and the catch-all    *)
(*     handler registerProxyServer): SpecPool (concurrent requests, the    *)
(*     unlocked cursor accesses of NextServer as separate steps), SpecGate *)
(*     (concurrent requests, each pool method as one step), SpecPoolSeq    *)
(*     (one request at a time) and SpecApi (the pool's methods called      *)
(*     directly);                                                          *)
(*   - balancer.SingleClientBalancer: SpecSC and FairSpecSC;               *)
(*   - balancer.RoundRobinBalancer: SpecRR and FairSpecRR;                 *)
(*   - the auth registry: SpecAuth; the background loops: SpecLoops;       *)
(*   - the earlier balancer.SingleClientBalancer (strategy.go): SpecOld;   *)
(*   - the prototype singleclient.Balancer: SpecProto (calls from one      *)
(*     goroutine) and SpecProtoConc (calls from several goroutines, the    *)
(*     unlocked accesses of b.activeClient as separate steps).             *)
(***************************************************************************)
EXTENDS Integers, Sequences, FiniteSets, TLC

(***************************************************************************)
(* Bounds of the model.                                                    *)
(***************************************************************************)
MaxServers == 2       \* largest backend list
MaxCap == 2           \* largest configured maxCapacity
MaxReq == 2           \* request goroutines of the proxy
MaxWaiting == 3       \* single-client strategy: client IDs handed out by RegisterClient
MaxRotation == 2      \* round-robin strategy: client IDs handed out by RegisterClient
MaxJobs == 2          \* job IDs handed out by RegisterJob
MaxTime == 2          \* clock ticks
MaxStrategyCap == 2   \* largest configured capacity of the round-robin strategy
MaxSingleCap == 1     \* largest configured capacity of the single-client strategy
SessionTimeout == 1   \* the configured session timeout, in clock ticks
MaxNames == 2         \* client names known to the auth registry
MaxLate == 2          \* ticks counted after the cancellation
MaxPermits == 2       \* prototype: largest requestCapacity
MaxQueue == 2         \* prototype: largest clientCapacity
MaxClients == 4       \* prototype: clients allocated by RegisterClient
MaxCalls == 2         \* prototype: goroutines calling the API concurrently

VARIABLES
  \* ---- server.ProxyServerPool ----
  mode,                \* "conc": requests interleave at every step; "gate": at every call of a
                       \* method of the pool; "seq": one request at a time; "api": no
                       \* request, the pool's methods are called directly
  numServers,          \* len(p.servers)
  alive,               \* server.alive of each backend (atomic.Bool)
  currentServerIndex,  \* p.currentServerIndex
  maxCapacity,         \* p.maxCapacity
  capacity,            \* len(p.capacity): tokens in the buffered channel
  \* ---- one goroutine per request running the catch-all handler ----
  pc,                  \* position of each request in the handler / NextServer
  srv,                 \* local: index read at "server := p.servers[p.currentServerIndex]"
  nxt,                 \* local: value computed for the store to p.currentServerIndex
  iter,                \* local: iterations of "for range sumBackends * 2" done
  sawAlive,            \* local: what server.IsAlive() returned for the backend examined last
  result,              \* outcome of NextServer for the request
  \* ---- history (not program state) ----
  held,                \* the request's acquire succeeded and it has not released since
  cursorAtCall,        \* p.currentServerIndex when the request's scan started
  stable,              \* no alive flag changed since the request's NextServer call began
  served               \* mode "seq": the successful selections since the last alive-flag change

VARIABLES
  \* ---- shared by the two strategies ----
  now,                 \* the clock (time.Now), in ticks
  nextClient,          \* the next fresh client ID (uuid.New in NewClient)
  nextJob,             \* the next fresh job ID (uuid.New in RegisterJob)
  lastOp,              \* history: the last call of the strategy's API and what it returned, or
                       \* the last client sweep of the single-client strategy and whom it
                       \* evicted (timedOut: the active client's session had timed out)
  \* ---- balancer.SingleClientBalancer ----
  scCapacity,          \* b.capacity
  activeClient,        \* b.activeClient: NoClient (nil) or [ID, LastActive]
  waitingClients,      \* b.waitingClients: sequence of [ID, LastActive]
  jobs,                \* b.jobs: job ID -> [CompletedAt]
  scTasks,             \* job IDs whose "go b.completeJob(jobID)" has not yet run completeRequest
  \* ---- balancer.RoundRobinBalancer ----
  rrCapacity,          \* b.capacity
  clients,             \* b.clients: client ID -> [LastActive, pendingJobs]
  activeJobs,          \* b.activeJobs: the job IDs in the map (CompletedAt is zero in all)
  completedJobs,       \* b.completedJobs: job ID -> CompletedAt
  clientOrder,         \* b.clientOrder
  currentIndex,        \* b.currentIndex
  rrTasks              \* job IDs whose "go b.processJobFn(jobID)" has not yet run processJob

VARIABLES
  \* ---- auth.AuthHandler ----
  authClients,         \* h.clients: client name -> RegisteredAt
  \* ---- history (not program state) ----
  lastSeen,            \* client name -> when it last registered or was last verified
  authOp               \* the last call of the handler's API and what it returned

VARIABLES
  \* ---- the process-wide context and the background loops started with it ----
  cancelled,           \* the context made by NewShutdownHandler is cancelled (Done is closed)
  exited,              \* the loops that have returned
  probing,             \* the health monitors that are in httpClient.Get
  tickerReady,         \* the loops in whose ticker.C a tick is waiting
  probeTicks,          \* probing monitor -> ticks of its ticker that elapsed during the probe
  \* ---- history (not program state) ----
  lateTicks            \* loop -> ticks of its ticker that elapsed since the cancellation
                       \* while it had not exited (counted up to MaxLate; none: no entry)

VARIABLES
  \* ---- singleclient.Balancer (the prototype) ----
  requestCapacity,     \* b.requestCapacity
  clientCapacity,      \* cap(b.clientQueue)
  clientQueue,         \* b.clientQueue: the clients in the buffered channel, oldest first
  protoActive,         \* b.activeClient: NoProtoClient (nil) or the client
  activeRequests,      \* b.activeRequests
  releasing,           \* goroutines "go b.releasePermit()" that have not decremented yet
  nextProtoClient,     \* the next fresh *Client (RegisterClient allocates one per call)
  \* ---- history (not program state) ----
  protoOp,             \* the last call of the prototype's API and what it returned
  poolOp               \* the last direct call of a method of the pool: the held count it
                       \* found and what it returned

VARIABLES
  \* ---- singleclient.Balancer called from several goroutines ----
  calls,               \* goroutine -> where its call of the prototype's API stands and the
                       \* *Client it works on
  \* ---- history (not program state) ----
  returned,            \* the clients that RegisterClient returned with a nil error
  deregistered         \* the clients DeregisterClient was called on

poolVars == <<mode, numServers, alive, currentServerIndex, maxCapacity, capacity,
              pc, srv, nxt, iter, sawAlive, result, held, cursorAtCall, stable, served>>
sharedVars == <<now, nextClient, nextJob, lastOp>>
scVars == <<scCapacity, activeClient, waitingClients, jobs, scTasks>>
rrVars == <<rrCapacity, clients, activeJobs, completedJobs, clientOrder, currentIndex,
            rrTasks>>

authVars == <<authClients, lastSeen, authOp>>
loopVars == <<cancelled, exited, probing, tickerReady, probeTicks, lateTicks>>

protoVars == <<requestCapacity, clientCapacity, clientQueue, protoActive, activeRequests,
              releasing, nextProtoClient, protoOp>>

apiVars == <<poolOp>>

concVars == <<calls, returned, deregistered>>

vars == <<poolVars, sharedVars, scVars, rrVars, authVars, loopVars, protoVars, apiVars,
          concVars>>

\* What a step of the pool, of a strategy or of the auth registry leaves alone:
\* the other objects (other...) and, unless it is an iteration of a background
\* loop, the loops (non...).
otherPool == <<sharedVars, scVars, rrVars, authVars, protoVars, apiVars, concVars>>
otherSC == <<poolVars, rrVars, authVars, protoVars, apiVars, concVars>>
otherRR == <<poolVars, scVars, authVars, protoVars, apiVars, concVars>>
otherAuth == <<poolVars, scVars, rrVars, protoVars, apiVars, concVars>>
nonPool == <<otherPool, loopVars>>
nonSC == <<otherSC, loopVars>>
nonRR == <<otherRR, loopVars>>
nonAuth == <<otherAuth, loopVars>>
nonProto == <<poolVars, sharedVars, scVars, rrVars, authVars, loopVars, apiVars, concVars>>
nonProtoConc == <<poolVars, sharedVars, scVars, rrVars, authVars, loopVars, apiVars>>

Requests == 1..MaxReq
ServerIdx == 0..(MaxServers - 1)
Servers == 0..(numServers - 1)

NoServer == -1

\* The background loops: the health monitor of each backend and the sweeps of the
\* auth registry and of the two strategies.
HealthLoop(s) == [kind |-> "startHealthCheck", backend |-> s]
Sweep(k) == [kind |-> k, backend |-> NoServer]
SweepKinds == {"auth.cleanupClients", "sc.cleanupInactiveClients", "sc.cleanupFinishedJobs",
               "rr.cleanupInactiveClients", "rr.cleanupFinishedJobs"}
Loops == {HealthLoop(s) : s \in Servers} \cup {Sweep(k) : k \in SweepKinds}

\* The loop has not returned.
Running(l) == l \notin exited

RECURSIVE SeqLast(_, _)
\* The last n elements of sequence s (all of s when it is shorter).
SeqLast(s, n) == IF Len(s) <= n THEN s ELSE SeqLast(Tail(s), n)

----------------------------------------------------------------------------
(***************************************************************************)
(* server.ProxyServerPool                                                  *)
(***************************************************************************)

\* NewProxyServerPool: every backend starts alive (newServer: alive.Store(true)),
\* the cursor is 0 and the capacity channel is empty.
InitPool(m, sizes, caps) ==
  /\ mode = m
  /\ numServers \in sizes
  /\ alive = [s \in ServerIdx |-> TRUE]
  /\ currentServerIndex = 0
  /\ maxCapacity \in caps
  /\ capacity = 0
  /\ pc = [r \in Requests |-> "idle"]
  /\ srv = [r \in Requests |-> NoServer]
  /\ nxt = [r \in Requests |-> 0]
  /\ iter = [r \in Requests |-> 0]
  /\ sawAlive = [r \in Requests |-> FALSE]
  /\ result = [r \in Requests |-> "none"]
  /\ held = [r \in Requests |-> FALSE]
  /\ cursorAtCall = [r \in Requests |-> 0]
  /\ stable = [r \in Requests |-> TRUE]
  /\ served = << >>
  /\ poolOp = [op |-> "none", held |-> 0, ret |-> "nil"]

\* GetAvailableCapacity: p.maxCapacity - len(p.capacity)
GetAvailableCapacity == maxCapacity - capacity

\* Mutant of CanSend: the send is taken whatever the channel holds.
CanSend_Unbounded == TRUE

\* The select of AcquireCapacityWithTimeout can take the send case only when the
\* buffered channel has room.
CanSend == capacity < maxCapacity

\* Mutant of AfterRelease: a receive without the default case's guard.
AfterRelease_Unguarded == capacity - 1

\* The select of ReleaseCapacity: receive a token if there is one, else default.
AfterRelease == IF capacity > 0 THEN capacity - 1 ELSE capacity

\* server.IsAlive
IsAlive(s) == alive[s]

\* Mutant of NextIndex: the cursor is advanced by two.
NextIndex_SkipOne(cur) == (cur + 2) % numServers

\* (p.currentServerIndex + 1) % sumBackends
NextIndex(cur) == (cur + 1) % numServers

\* The catch-all handler is entered and calls NextServer. Idle goroutine slots are
\* interchangeable, so the request takes the lowest one; in mode "seq" the
\* requests arrive one after the other.
HandlerStart(r) ==
  /\ pc[r] = "idle"
  /\ \A q \in Requests : q < r => pc[q] # "idle"
  /\ mode = "seq" => \A q \in Requests : pc[q] = "idle"
  /\ pc' = [pc EXCEPT ![r] = "acquire"]
  /\ stable' = [stable EXCEPT ![r] = TRUE]
  /\ UNCHANGED <<nonPool, sawAlive, mode, numServers, alive, currentServerIndex, maxCapacity, capacity,
                 srv, nxt, iter, result, held, cursorAtCall, served>>

\* AcquireCapacityWithTimeout, case p.capacity <- struct{}{}: return nil
AcquireCapacity(r) ==
  /\ pc[r] = "acquire"
  /\ CanSend
  /\ capacity' = capacity + 1
  /\ held' = [held EXCEPT ![r] = TRUE]
  /\ pc' = [pc EXCEPT ![r] = "check"]
  /\ UNCHANGED <<nonPool, sawAlive, mode, numServers, alive, currentServerIndex, maxCapacity,
                 srv, nxt, iter, result, cursorAtCall, stable, served>>

\* AcquireCapacityWithTimeout, case <-timeoutCtx.Done(): return ErrNoCapacity, taken
\* when the timeout elapses with the channel full. NextServer returns the error and
\* the handler answers 503 and returns.
AcquireTimeout(r) ==
  /\ pc[r] = "acquire"
  /\ ~CanSend
  /\ result' = [result EXCEPT ![r] = "ErrNoCapacity"]
  /\ pc' = [pc EXCEPT ![r] = "done"]
  /\ UNCHANGED <<nonPool, sawAlive, mode, numServers, alive, currentServerIndex, maxCapacity, capacity,
                 srv, nxt, iter, held, cursorAtCall, stable, served>>

\* AcquireCapacityWithTimeout, case <-timeoutCtx.Done() taken because the request's
\* own context (the parent of timeoutCtx) is cancelled: return ErrNoCapacity, whether
\* or not the channel has room (select picks among the ready cases).
AcquireCancelled(r) ==
  /\ pc[r] = "acquire"
  /\ result' = [result EXCEPT ![r] = "ErrNoCapacity"]
  /\ pc' = [pc EXCEPT ![r] = "done"]
  /\ UNCHANGED <<nonPool, sawAlive, mode, numServers, alive, currentServerIndex, maxCapacity,
                 capacity, srv, nxt, iter, held, cursorAtCall, stable, served>>

\* NextServer after the acquire: "if sumBackends == 0 { return nil, ErrNoServers }",
\* else the scan loop is entered. On the error the handler answers 503 and returns.
CheckServers(r) ==
  /\ pc[r] = "check"
  /\ IF numServers = 0
       THEN /\ result' = [result EXCEPT ![r] = "ErrNoServers"]
            /\ pc' = [pc EXCEPT ![r] = "done"]
            /\ UNCHANGED <<iter, cursorAtCall>>
       ELSE /\ iter' = [iter EXCEPT ![r] = 0]
            /\ cursorAtCall' = [cursorAtCall EXCEPT ![r] = currentServerIndex]
            /\ pc' = [pc EXCEPT ![r] = "read"]
            /\ UNCHANGED result
  /\ UNCHANGED <<nonPool, sawAlive, mode, numServers, alive, currentServerIndex, maxCapacity, capacity,
                 srv, nxt, held, stable, served>>

\* The scan loop of NextServer run without interruption, from cursor cur and with
\* k iterations left: the backend it returns (NoServer when the loop runs out)
\* and the cursor it leaves.
RECURSIVE ScanLoop(_, _)
ScanLoop(cur, k) ==
  IF k = 0 THEN [ret |-> NoServer, cursor |-> cur]
  ELSE IF IsAlive(cur) THEN [ret |-> cur, cursor |-> NextIndex(cur)]
  ELSE ScanLoop(NextIndex(cur), k - 1)

\* NextServer after the acquire, taken as one step (mode "gate"): the check of
\* sumBackends and the whole scan loop.
SelectServer(r) ==
  /\ pc[r] = "check"
  /\ IF numServers = 0
       THEN /\ result' = [result EXCEPT ![r] = "ErrNoServers"]
            /\ pc' = [pc EXCEPT ![r] = "done"]
            /\ UNCHANGED <<currentServerIndex, srv, sawAlive>>
       ELSE LET found == ScanLoop(currentServerIndex, numServers * 2) IN
            /\ currentServerIndex' = found.cursor
            /\ srv' = [srv EXCEPT ![r] = found.ret]
            /\ sawAlive' = [sawAlive EXCEPT ![r] = found.ret # NoServer]
            /\ result' = [result EXCEPT ![r] =
                             IF found.ret # NoServer THEN "ok" ELSE "ErrNoHealthyServers"]
            /\ pc' = [pc EXCEPT ![r] = IF found.ret # NoServer THEN "serve" ELSE "done"]
  /\ UNCHANGED <<nonPool, mode, numServers, alive, maxCapacity, capacity,
                 nxt, iter, held, cursorAtCall, stable, served>>

\* server := p.servers[p.currentServerIndex]
ScanRead(r) ==
  /\ pc[r] = "read"
  /\ srv' = [srv EXCEPT ![r] = currentServerIndex]
  /\ pc' = [pc EXCEPT ![r] = "load"]
  /\ UNCHANGED <<nonPool, sawAlive, mode, numServers, alive, currentServerIndex, maxCapacity, capacity,
                 nxt, iter, result, held, cursorAtCall, stable, served>>

\* p.currentServerIndex = (p.currentServerIndex + 1) % sumBackends: the load and
\* the computation. No lock is held, so other requests may run before the store.
ScanLoad(r) ==
  /\ pc[r] = "load"
  /\ nxt' = [nxt EXCEPT ![r] = NextIndex(currentServerIndex)]
  /\ pc' = [pc EXCEPT ![r] = "store"]
  /\ UNCHANGED <<nonPool, sawAlive, mode, numServers, alive, currentServerIndex, maxCapacity, capacity,
                 srv, iter, result, held, cursorAtCall, stable, served>>

\* p.currentServerIndex = ...: the store.
ScanStore(r) ==
  /\ pc[r] = "store"
  /\ currentServerIndex' = nxt[r]
  /\ nxt' = [nxt EXCEPT ![r] = 0]
  /\ pc' = [pc EXCEPT ![r] = "test"]
  /\ UNCHANGED <<nonPool, sawAlive, mode, numServers, alive, maxCapacity, capacity,
                 srv, iter, result, held, cursorAtCall, stable, served>>

\* Mutant of Selects: the examined backend is returned whatever its flag.
Selects_IgnoreHealth(r) == TRUE

\* Whether the backend examined by request r is returned.
Selects(r) == IsAlive(srv[r])

\* "if server.IsAlive() { return server.reverseProxy, nil }", else the next
\* iteration, and "return nil, ErrNoHealthyServers" after sumBackends * 2 of them.
ScanTest(r) ==
  /\ pc[r] = "test"
  /\ sawAlive' = [sawAlive EXCEPT ![r] = IsAlive(srv[r])]
  /\ IF Selects(r)
       THEN /\ result' = [result EXCEPT ![r] = "ok"]
            /\ pc' = [pc EXCEPT ![r] = "serve"]
            /\ served' = IF mode # "seq" THEN served
                          ELSE IF ~stable[r] THEN << >>
                          ELSE SeqLast(Append(served, [before |-> cursorAtCall[r],
                                                         ret |-> srv[r],
                                                         after |-> currentServerIndex]),
                                       MaxServers)
            /\ iter' = [iter EXCEPT ![r] = 0]
       ELSE /\ IF iter[r] + 1 >= numServers * 2
                 THEN /\ result' = [result EXCEPT ![r] = "ErrNoHealthyServers"]
                      /\ pc' = [pc EXCEPT ![r] = "done"]
                      /\ iter' = [iter EXCEPT ![r] = 0]
                 ELSE /\ pc' = [pc EXCEPT ![r] = "read"]
                      /\ iter' = [iter EXCEPT ![r] = iter[r] + 1]
                      /\ UNCHANGED result
            /\ UNCHANGED served
  /\ UNCHANGED <<nonPool, mode, numServers, alive, currentServerIndex, maxCapacity, capacity,
                 srv, nxt, held, cursorAtCall, stable>>

\* handler.ServeHTTP(w, r): the exchange with the backend ends (a transport
\* failure is answered with 503 by the reverse proxy's ErrorHandler).
ServeHTTP(r) ==
  /\ pc[r] = "serve"
  /\ pc' = [pc EXCEPT ![r] = "release"]
  /\ UNCHANGED <<nonPool, sawAlive, mode, numServers, alive, currentServerIndex, maxCapacity, capacity,
                 srv, nxt, iter, result, held, cursorAtCall, stable, served>>

\* proxyServerPool.ReleaseCapacity() at the end of the handler.
ReleaseCapacity(r) ==
  /\ pc[r] = "release"
  /\ capacity' = AfterRelease
  /\ held' = [held EXCEPT ![r] = FALSE]
  /\ pc' = [pc EXCEPT ![r] = "done"]
  /\ UNCHANGED <<nonPool, sawAlive, mode, numServers, alive, currentServerIndex, maxCapacity,
                 srv, nxt, iter, result, cursorAtCall, stable, served>>

\* The handler has returned; the goroutine slot serves a later request.
HandlerReturn(r) ==
  /\ pc[r] = "done"
  /\ pc' = [pc EXCEPT ![r] = "idle"]
  /\ srv' = [srv EXCEPT ![r] = NoServer]
  /\ nxt' = [nxt EXCEPT ![r] = 0]
  /\ iter' = [iter EXCEPT ![r] = 0]
  /\ sawAlive' = [sawAlive EXCEPT ![r] = FALSE]
  /\ result' = [result EXCEPT ![r] = "none"]
  /\ held' = [held EXCEPT ![r] = FALSE]
  /\ cursorAtCall' = [cursorAtCall EXCEPT ![r] = 0]
  /\ stable' = [stable EXCEPT ![r] = TRUE]
  /\ UNCHANGED <<nonPool, mode, numServers, alive, currentServerIndex, maxCapacity, capacity, served>>

\* What httpClient.Get(url) of a probe can give: a response with status 200, a
\* response with another status, or a transport error.
ProbeOutcomes == {"200", "503", "error"}

\* Mutant of ProbeFailed: any response counts as a pass.
ProbeFailed_ErrorOnly(o) == o = "error"

\* "if err != nil || resp.StatusCode != http.StatusOK"
ProbeFailed(o) == o = "error" \/ o # "200"

\* The ticker.C case of a backend's health monitor (startHealthCheck) once the
\* probe has returned: the probe's outcome is stored in that backend's flag.
HealthCheckBody(s, ok) ==
  /\ s \in Servers
  /\ alive' = [alive EXCEPT ![s] = ok]
  /\ IF alive[s] # ok
       THEN /\ stable' = IF mode = "gate" THEN stable
                          ELSE [r \in Requests |-> pc[r] = "idle"]
            /\ served' = << >>
       ELSE UNCHANGED <<stable, served>>
  /\ UNCHANGED <<otherPool, sawAlive, mode, numServers, currentServerIndex, maxCapacity, capacity,
                 pc, srv, nxt, iter, result, held, cursorAtCall>>

\* One tick of a backend's health monitor, probe included, taken as one step.
HealthCheck(s, ok) ==
  /\ s \in Servers
  /\ Running(HealthLoop(s))
  /\ HealthCheckBody(s, ok)
  /\ UNCHANGED loopVars

NextPool ==
  \/ \E r \in Requests : HandlerStart(r)
  \/ \E r \in Requests : AcquireCapacity(r)
  \/ \E r \in Requests : AcquireTimeout(r)
  \/ \E r \in Requests : AcquireCancelled(r)
  \/ \E r \in Requests : CheckServers(r)
  \/ \E r \in Requests : ScanRead(r)
  \/ \E r \in Requests : ScanLoad(r)
  \/ \E r \in Requests : ScanStore(r)
  \/ \E r \in Requests : ScanTest(r)
  \/ \E r \in Requests : ServeHTTP(r)
  \/ \E r \in Requests : ReleaseCapacity(r)
  \/ \E r \in Requests : HandlerReturn(r)
  \/ \E s \in ServerIdx, o \in ProbeOutcomes : HealthCheck(s, ~ProbeFailed(o))

\* The proxy with every NextServer call taken as one step.
NextGate ==
  \/ \E r \in Requests : HandlerStart(r)
  \/ \E r \in Requests : AcquireCapacity(r)
  \/ \E r \in Requests : AcquireTimeout(r)
  \/ \E r \in Requests : AcquireCancelled(r)
  \/ \E r \in Requests : SelectServer(r)
  \/ \E r \in Requests : ServeHTTP(r)
  \/ \E r \in Requests : ReleaseCapacity(r)
  \/ \E r \in Requests : HandlerReturn(r)
  \/ \E s \in ServerIdx, o \in ProbeOutcomes : HealthCheck(s, ~ProbeFailed(o))

\* The exported methods of ProxyServerPool called directly and one call at a
\* time (mode "api"), by a caller that need not hold a slot.

\* What every direct call leaves alone: the handlers' locals.
handlerVars == <<pc, srv, nxt, iter, sawAlive, result, held, cursorAtCall, stable, served>>

\* ReleaseCapacity: "select { case <-p.capacity: default: }".
CallReleaseCapacity ==
  /\ mode = "api"
  /\ capacity' = AfterRelease
  /\ poolOp' = [op |-> "ReleaseCapacity", held |-> capacity, ret |-> "nil"]
  /\ UNCHANGED <<sharedVars, scVars, rrVars, authVars, protoVars, loopVars, handlerVars, concVars,
                 mode, numServers, alive, currentServerIndex, maxCapacity>>

\* NextServer: with every slot held and no release in progress the acquire
\* times out; otherwise the slot is taken and kept, whatever the scan returns.
CallNextServer ==
  /\ mode = "api"
  /\ IF ~CanSend
       THEN /\ poolOp' = [op |-> "NextServer", held |-> capacity, ret |-> "ErrNoCapacity"]
            /\ UNCHANGED <<capacity, currentServerIndex>>
       ELSE /\ capacity' = capacity + 1
            /\ IF numServers = 0
                 THEN /\ poolOp' = [op |-> "NextServer", held |-> capacity,
                                    ret |-> "ErrNoServers"]
                      /\ UNCHANGED currentServerIndex
                 ELSE LET found == ScanLoop(currentServerIndex, numServers * 2) IN
                      /\ currentServerIndex' = found.cursor
                      /\ poolOp' = [op |-> "NextServer", held |-> capacity,
                                    ret |-> IF found.ret # NoServer THEN "ok"
                                            ELSE "ErrNoHealthyServers"]
  /\ UNCHANGED <<sharedVars, scVars, rrVars, authVars, protoVars, loopVars, handlerVars, concVars,
                 mode, numServers, alive, maxCapacity>>

NextApi ==
  \/ CallNextServer
  \/ CallReleaseCapacity
  \/ \E s \in ServerIdx, o \in ProbeOutcomes : HealthCheck(s, ~ProbeFailed(o))


----------------------------------------------------------------------------
(***************************************************************************)
(* The clock and the identifiers shared by the two strategies.             *)
(***************************************************************************)

SCClientIDs == 1..MaxWaiting
RRClientIDs == 1..MaxRotation
JobIDs == 1..MaxJobs

\* The zero time.Time (Job.CompletedAt of a job that has not completed).
ZeroTime == -1

\* A nil *Client.
NoClient == [ID |-> 0, LastActive |-> ZeroTime]

\* time.Since(t)
Since(t) == now - t

InitShared ==
  /\ now = 0
  /\ nextClient = 1
  /\ nextJob = 1
  /\ lastOp = [op |-> "none", client |-> 0, job |-> 0, err |-> "nil", timedOut |-> FALSE]

\* Time passes.
Tick ==
  /\ now < MaxTime
  /\ now' = now + 1
  /\ UNCHANGED <<nextClient, nextJob, lastOp, poolVars, scVars, rrVars, authVars, loopVars,
                 protoVars, apiVars, concVars>>

----------------------------------------------------------------------------
(***************************************************************************)
(* balancer.SingleClientBalancer                                           *)
(***************************************************************************)

\* NewSingleClientBalancer
InitSC(caps) ==
  /\ scCapacity \in caps
  /\ activeClient = NoClient
  /\ waitingClients = << >>
  /\ jobs = [j \in {} |-> [CompletedAt |-> ZeroTime]]
  /\ scTasks = {}

\* Mutant of IsStale: the session never times out.
IsStale_Never(t) == FALSE

\* time.Since(x.LastActive) > b.sessionTimeout
IsStale(t) == Since(t) > SessionTimeout

\* Mutant of AtCapacity: one job more than the capacity is admitted.
AtCapacity_OffByOne == Cardinality(DOMAIN jobs) > scCapacity

\* len(b.jobs) >= b.capacity
AtCapacity == Cardinality(DOMAIN jobs) >= scCapacity

\* Mutant of activateNextClient: the promoted client stays in the waiting sequence.
ActivateNextClient_KeepsHead(w) ==
  IF Len(w) > 0
    THEN [active |-> [ID |-> Head(w).ID, LastActive |-> now], waiting |-> w]
    ELSE [active |-> NoClient, waiting |-> w]

\* Mutant of ActivateNextClient: the active client is cleared and nobody is
\* promoted.
ActivateNextClient_NoPromotion(w) == [active |-> NoClient, waiting |-> w]

\* activateNextClient, applied to the waiting sequence w: the new active client
\* and the new waiting sequence.
ActivateNextClient(w) ==
  IF Len(w) > 0
    THEN [active |-> [ID |-> Head(w).ID, LastActive |-> now], waiting |-> Tail(w)]
    ELSE [active |-> NoClient, waiting |-> w]

\* Mutant of RemoveAt: the element and everything behind it are cut off.
RemoveAt_CutsTail(s, i) == SubSeq(s, 1, i - 1)

\* append(s[:i], s[i+1:]...) for the 1-based index i
RemoveAt(s, i) == SubSeq(s, 1, i - 1) \o SubSeq(s, i + 1, Len(s))

\* Mutant of IndexOf: an ID that is not in the sequence is found at its head.
IndexOf_DefaultsToHead(w, c) ==
  IF \E i \in 1..Len(w) : w[i].ID = c
    THEN CHOOSE i \in 1..Len(w) : w[i].ID = c /\ \A k \in 1..(i - 1) : w[k].ID # c
    ELSE IF Len(w) > 0 THEN 1 ELSE 0

\* The first index of the waiting sequence holding client c, or 0.
IndexOf(w, c) ==
  IF \E i \in 1..Len(w) : w[i].ID = c
    THEN CHOOSE i \in 1..Len(w) : w[i].ID = c /\ \A k \in 1..(i - 1) : w[k].ID # c
    ELSE 0

\* Mutant of KeepFresh: the sweep empties the waiting sequence.
KeepFresh_DropsAll(w) == << >>

\* The clients of sequence w the sweep keeps: time.Since(LastActive) <= sessionTimeout.
RECURSIVE KeepFresh(_)
KeepFresh(w) ==
  IF w = << >> THEN << >>
  ELSE IF ~IsStale(Head(w).LastActive) THEN <<Head(w)>> \o KeepFresh(Tail(w))
  ELSE KeepFresh(Tail(w))

SCRegisterClient ==
  /\ nextClient <= MaxWaiting
  /\ LET client == [ID |-> nextClient, LastActive |-> now] IN
       IF activeClient = NoClient
         THEN /\ activeClient' = client
              /\ UNCHANGED waitingClients
         ELSE /\ waitingClients' = Append(waitingClients, client)
              /\ UNCHANGED activeClient
  /\ nextClient' = nextClient + 1
  /\ lastOp' = [op |-> "RegisterClient", client |-> nextClient, job |-> 0,
                err |-> "nil", timedOut |-> FALSE]
  /\ UNCHANGED <<now, nextJob, scCapacity, jobs, scTasks, nonSC>>

SCRegisterJob(c) ==
  /\ IF activeClient = NoClient \/ activeClient.ID # c
       THEN /\ lastOp' = [op |-> "RegisterJob", client |-> c, job |-> 0,
                          err |-> "ErrorClientNotActive", timedOut |-> FALSE]
            /\ UNCHANGED <<activeClient, waitingClients, jobs, scTasks, nextJob>>
       ELSE IF IsStale(activeClient.LastActive)
       THEN /\ activeClient' = ActivateNextClient(waitingClients).active
            /\ waitingClients' = ActivateNextClient(waitingClients).waiting
            /\ lastOp' = [op |-> "RegisterJob", client |-> c, job |-> 0,
                          err |-> "ErrorClientNotActive", timedOut |-> TRUE]
            /\ UNCHANGED <<jobs, scTasks, nextJob>>
       ELSE IF AtCapacity
       THEN /\ lastOp' = [op |-> "RegisterJob", client |-> c, job |-> 0,
                          err |-> "ErrorServerAtCapacity", timedOut |-> FALSE]
            /\ UNCHANGED <<activeClient, waitingClients, jobs, scTasks, nextJob>>
       ELSE /\ nextJob <= MaxJobs
            /\ activeClient' = [activeClient EXCEPT !.LastActive = now]
            /\ jobs' = [j \in DOMAIN jobs \cup {nextJob} |->
                          IF j = nextJob THEN [CompletedAt |-> ZeroTime] ELSE jobs[j]]
            /\ scTasks' = scTasks \cup {nextJob}
            /\ nextJob' = nextJob + 1
            /\ lastOp' = [op |-> "RegisterJob", client |-> c, job |-> nextJob,
                          err |-> "nil", timedOut |-> FALSE]
            /\ UNCHANGED waitingClients
  /\ UNCHANGED <<now, nextClient, scCapacity, nonSC>>

SCDeregister(c) ==
  /\ IF activeClient # NoClient /\ activeClient.ID = c
       THEN /\ activeClient' = ActivateNextClient(waitingClients).active
            /\ waitingClients' = ActivateNextClient(waitingClients).waiting
            /\ lastOp' = [op |-> "Deregister", client |-> c, job |-> 0,
                          err |-> "nil", timedOut |-> FALSE]
       ELSE IF IndexOf(waitingClients, c) # 0
       THEN /\ waitingClients' = RemoveAt(waitingClients, IndexOf(waitingClients, c))
            /\ lastOp' = [op |-> "Deregister", client |-> c, job |-> 0,
                          err |-> "nil", timedOut |-> FALSE]
            /\ UNCHANGED activeClient
       ELSE /\ lastOp' = [op |-> "Deregister", client |-> c, job |-> 0,
                          err |-> "ErrorClientNotFound", timedOut |-> FALSE]
            /\ UNCHANGED <<activeClient, waitingClients>>
  /\ UNCHANGED <<now, nextClient, nextJob, scCapacity, jobs, scTasks, nonSC>>

\* Mutant of SCCompleteRequest: the completion is recorded only while a client is
\* active.
SCCompleteRequest_NeedsActive(j) ==
  /\ j \in scTasks
  /\ scTasks' = scTasks \ {j}
  /\ IF j \in DOMAIN jobs /\ activeClient # NoClient
       THEN jobs' = [jobs EXCEPT ![j] = [CompletedAt |-> now]]
       ELSE UNCHANGED jobs
  /\ UNCHANGED <<lastOp, now, nextClient, nextJob, scCapacity, activeClient, waitingClients, nonSC>>

\* The goroutine started by "go b.completeJob(jobID)": after jobDuration it calls
\* completeRequest.
SCCompleteRequest(j) ==
  /\ j \in scTasks
  /\ scTasks' = scTasks \ {j}
  /\ IF j \in DOMAIN jobs
       THEN jobs' = [jobs EXCEPT ![j] = [CompletedAt |-> now]]
       ELSE UNCHANGED jobs
  /\ UNCHANGED <<lastOp, now, nextClient, nextJob, scCapacity, activeClient, waitingClients, nonSC>>

\* The ticker.C case of cleanupInactiveClients.
SCCleanupInactiveClientsBody ==
  /\ LET stale == activeClient # NoClient /\ IsStale(activeClient.LastActive)
         promoted == ActivateNextClient(waitingClients)
         waiting == IF stale THEN promoted.waiting ELSE waitingClients
     IN /\ activeClient' = IF stale THEN promoted.active ELSE activeClient
        /\ waitingClients' = KeepFresh(waiting)
        /\ lastOp' = [op |-> "cleanupInactiveClients",
                      client |-> IF stale THEN activeClient.ID ELSE 0,
                      job |-> 0, err |-> "nil", timedOut |-> stale]
  /\ UNCHANGED <<now, nextClient, nextJob, scCapacity, jobs, scTasks, otherSC>>

\* One tick of cleanupInactiveClients, taken as one step.
SCCleanupInactiveClients ==
  /\ Running(Sweep("sc.cleanupInactiveClients"))
  /\ SCCleanupInactiveClientsBody
  /\ UNCHANGED loopVars

\* Mutant of Prunable: the zero CompletedAt of a pending job is not excluded.
Prunable_IgnoresZero(j) == IsStale(jobs[j].CompletedAt)

\* cleanupFinishedJobs: "!job.CompletedAt.IsZero() &&
\* time.Since(job.CompletedAt) > b.sessionTimeout"
Prunable(j) == jobs[j].CompletedAt # ZeroTime /\ IsStale(jobs[j].CompletedAt)

\* The ticker.C case of cleanupFinishedJobs.
SCCleanupFinishedJobsBody ==
  /\ LET kept == {j \in DOMAIN jobs : ~Prunable(j)}
     IN jobs' = [j \in kept |-> jobs[j]]
  /\ UNCHANGED <<lastOp, now, nextClient, nextJob, scCapacity, activeClient, waitingClients,
                 scTasks, otherSC>>

\* One tick of cleanupFinishedJobs, taken as one step.
SCCleanupFinishedJobs ==
  /\ Running(Sweep("sc.cleanupFinishedJobs"))
  /\ SCCleanupFinishedJobsBody
  /\ UNCHANGED loopVars

\* Mutant of SCGetJobStatus: a job in the map is reported pending whatever its
\* CompletedAt.
SCGetJobStatus_AlwaysPending(j) ==
  IF j \in DOMAIN jobs THEN "pending" ELSE "ErrorJobNotFound"

\* SingleClientBalancer.GetJobStatus: what the call returns for job ID j (the
\* call changes no state).
SCGetJobStatus(j) ==
  IF j \in DOMAIN jobs
    THEN IF jobs[j].CompletedAt = ZeroTime THEN "pending" ELSE "finished"
    ELSE "ErrorJobNotFound"

\* Mutant of SCGetClientStatus: a waiting client is reported at its 0-based index.
SCGetClientStatus_ZeroBased(c) ==
  IF activeClient # NoClient /\ activeClient.ID = c
    THEN [status |-> "active", position |-> 0, err |-> "nil"]
  ELSE IF IndexOf(waitingClients, c) # 0
    THEN [status |-> "queued", position |-> IndexOf(waitingClients, c) - 1, err |-> "nil"]
  ELSE [status |-> "", position |-> 0, err |-> "ErrorClientNotFound"]

\* SingleClientBalancer.GetClientStatus: what the call returns for client ID c
\* (the call changes no state; "return StatusQueued, i + 1, nil" for the first
\* 0-based index i holding c).
SCGetClientStatus(c) ==
  IF activeClient # NoClient /\ activeClient.ID = c
    THEN [status |-> "active", position |-> 0, err |-> "nil"]
  ELSE IF IndexOf(waitingClients, c) # 0
    THEN [status |-> "queued", position |-> IndexOf(waitingClients, c), err |-> "nil"]
  ELSE [status |-> "", position |-> 0, err |-> "ErrorClientNotFound"]

NextSC ==
  \/ SCRegisterClient
  \/ \E c \in SCClientIDs : SCRegisterJob(c)
  \/ \E c \in SCClientIDs : SCDeregister(c)
  \/ \E j \in JobIDs : SCCompleteRequest(j)
  \/ SCCleanupInactiveClients
  \/ SCCleanupFinishedJobs
  \/ Tick


----------------------------------------------------------------------------
(***************************************************************************)
(* The earlier balancer.SingleClientBalancer (internal/balancer/strategy.go) *)
(*                                                                         *)
(* It has the fields of the later one, held in the same variables; a job's *)
(* record also carries CreatedAt, which its job sweep reads, and a          *)
(* completion goroutine carries the ID of the client that submitted the    *)
(* job. A nil-pointer dereference panics in a goroutine of its own, which  *)
(* ends the process: no step follows it.                                   *)
(***************************************************************************)

\* The process has ended by a panic.
Crashed == lastOp.err = "panic"

\* RegisterClient (the code of the later implementation).
OldRegisterClient == ~Crashed /\ SCRegisterClient

\* Deregister (the code of the later implementation).
OldDeregister(c) == ~Crashed /\ SCDeregister(c)

\* ProcessRequest: no staleness check; the goroutine it starts sleeps and calls
\* completeRequest(clientID, jobID).
OldProcessRequest(c) ==
  /\ ~Crashed
  /\ IF activeClient = NoClient \/ activeClient.ID # c
       THEN /\ lastOp' = [op |-> "ProcessRequest", client |-> c, job |-> 0,
                          err |-> "ErrorClientNotActive", timedOut |-> FALSE]
            /\ UNCHANGED <<activeClient, jobs, scTasks, nextJob>>
       ELSE IF AtCapacity
       THEN /\ lastOp' = [op |-> "ProcessRequest", client |-> c, job |-> 0,
                          err |-> "ErrorServerAtCapacity", timedOut |-> FALSE]
            /\ UNCHANGED <<activeClient, jobs, scTasks, nextJob>>
       ELSE /\ nextJob <= MaxJobs
            /\ activeClient' = [activeClient EXCEPT !.LastActive = now]
            /\ jobs' = [j \in DOMAIN jobs \cup {nextJob} |->
                          IF j = nextJob
                            THEN [CreatedAt |-> now, CompletedAt |-> ZeroTime]
                            ELSE jobs[j]]
            /\ scTasks' = scTasks \cup {[client |-> c, job |-> nextJob]}
            /\ nextJob' = nextJob + 1
            /\ lastOp' = [op |-> "ProcessRequest", client |-> c, job |-> nextJob,
                          err |-> "nil", timedOut |-> FALSE]
  /\ UNCHANGED <<now, nextClient, scCapacity, waitingClients, nonSC>>

\* completeRequest(clientID, jobID), run by the goroutine of ProcessRequest:
\* "b.activeClient.LastActive = time.Now()" comes first and dereferences
\* b.activeClient whatever it is; then the job's CompletedAt is set, or
\* ErrorJobNotFound is returned when the job sweep has deleted the job.
OldCompleteRequest(c, j) ==
  /\ ~Crashed
  /\ [client |-> c, job |-> j] \in scTasks
  /\ scTasks' = scTasks \ {[client |-> c, job |-> j]}
  /\ IF activeClient = NoClient
       THEN /\ lastOp' = [op |-> "completeRequest", client |-> c, job |-> j,
                          err |-> "panic", timedOut |-> FALSE]
            /\ UNCHANGED <<activeClient, jobs>>
       ELSE /\ activeClient' = [activeClient EXCEPT !.LastActive = now]
            /\ IF j \in DOMAIN jobs
                 THEN /\ jobs' = [jobs EXCEPT ![j].CompletedAt = now]
                      /\ lastOp' = [op |-> "completeRequest", client |-> c, job |-> j,
                                    err |-> "nil", timedOut |-> FALSE]
                 ELSE /\ lastOp' = [op |-> "completeRequest", client |-> c, job |-> j,
                                    err |-> "ErrorJobNotFound", timedOut |-> FALSE]
                      /\ UNCHANGED jobs
  /\ UNCHANGED <<now, nextClient, nextJob, scCapacity, waitingClients, nonSC>>

\* One tick of cleanupInactiveClients: only the active client is checked.
OldCleanupInactiveClients ==
  /\ ~Crashed
  /\ LET stale == activeClient # NoClient /\ IsStale(activeClient.LastActive)
         promoted == ActivateNextClient(waitingClients)
     IN /\ activeClient' = IF stale THEN promoted.active ELSE activeClient
        /\ waitingClients' = IF stale THEN promoted.waiting ELSE waitingClients
        /\ lastOp' = [op |-> "cleanupInactiveClients",
                      client |-> IF stale THEN activeClient.ID ELSE 0,
                      job |-> 0, err |-> "nil", timedOut |-> stale]
  /\ UNCHANGED <<now, nextClient, nextJob, scCapacity, jobs, scTasks, nonSC>>

\* One tick of cleanupFinishedJobs: "if time.Since(job.CreatedAt) >
\* b.sessionTimeout { delete(b.jobs, jobID) }", finished or not.
OldCleanupFinishedJobs ==
  /\ ~Crashed
  /\ LET kept == {j \in DOMAIN jobs : ~IsStale(jobs[j].CreatedAt)}
     IN jobs' = [j \in kept |-> jobs[j]]
  /\ UNCHANGED <<lastOp, now, nextClient, nextJob, scCapacity, activeClient, waitingClients,
                 scTasks, nonSC>>

NextOld ==
  \/ OldRegisterClient
  \/ \E c \in SCClientIDs : OldProcessRequest(c)
  \/ \E c \in SCClientIDs : OldDeregister(c)
  \/ \E c \in SCClientIDs, j \in JobIDs : OldCompleteRequest(c, j)
  \/ OldCleanupInactiveClients
  \/ OldCleanupFinishedJobs
  \/ Tick

----------------------------------------------------------------------------
(***************************************************************************)
(* balancer.RoundRobinBalancer                                             *)
(***************************************************************************)

\* time.Minute, the idle threshold of the round-robin sweeps, in clock ticks.
Minute == 1

\* NewRoundRobinBalancer
InitRR(caps) ==
  /\ rrCapacity \in caps
  /\ clients = [c \in {} |-> [LastActive |-> 0, pendingJobs |-> << >>]]
  /\ activeJobs = {}
  /\ completedJobs = [j \in {} |-> 0]
  /\ clientOrder = << >>
  /\ currentIndex = 0
  /\ rrTasks = {}

\* Mutant of RRAtCapacity: processNextJob dispatches whatever the number of jobs.
RRAtCapacity_Never(aj) == FALSE

\* processNextJob: len(b.activeJobs) >= b.capacity, for the map holding the IDs aj.
RRAtCapacity(aj) == Cardinality(aj) >= rrCapacity

\* Mutant of ScanRotation: the dispatched job stays in the client's queue.
ScanRotation_KeepsJob(cl, order, idx, startIndex) ==
  IF Len(cl[order[idx + 1]].pendingJobs) > 0
    THEN [clients |-> cl,
          index |-> (idx + 1) % Len(order),
          job |-> Head(cl[order[idx + 1]].pendingJobs)]
    ELSE [clients |-> cl, index |-> idx, job |-> 0]

\* Mutant of ScanRotation: only the client at the cursor is examined.
ScanRotation_CursorOnly(cl, order, idx, startIndex) ==
  IF Len(cl[order[idx + 1]].pendingJobs) > 0
    THEN [clients |-> [cl EXCEPT ![order[idx + 1]].pendingJobs = Tail(@)],
          index |-> (idx + 1) % Len(order),
          job |-> Head(cl[order[idx + 1]].pendingJobs)]
    ELSE [clients |-> cl, index |-> idx, job |-> 0]

\* The loop of processNextJob over rotation `order` from 0-based index idx, for
\* the clients map cl: the map and the index it leaves, and the job it starts
\* with "go b.processJobFn(jobID)" (0 when it starts none).
RECURSIVE ScanRotation(_, _, _, _)
ScanRotation(cl, order, idx, startIndex) ==
  LET currentClientID == order[idx + 1]
      following == (idx + 1) % Len(order)
  IN IF Len(cl[currentClientID].pendingJobs) > 0
       THEN [clients |-> [cl EXCEPT ![currentClientID].pendingJobs = Tail(@)],
             index |-> following,
             job |-> Head(cl[currentClientID].pendingJobs)]
       ELSE IF following = startIndex
         THEN [clients |-> cl, index |-> following, job |-> 0]
         ELSE ScanRotation(cl, order, following, startIndex)

\* processNextJob, for the clients map cl, the active job IDs aj, the rotation
\* `order` and the index idx.
ProcessNextJob(cl, aj, order, idx) ==
  IF RRAtCapacity(aj) THEN [clients |-> cl, index |-> idx, job |-> 0]
  ELSE IF Len(order) = 0 THEN [clients |-> cl, index |-> idx, job |-> 0]
  ELSE ScanRotation(cl, order, idx, idx)

\* The job IDs a processNextJob outcome hands to a new goroutine.
Started(outcome) == IF outcome.job = 0 THEN {} ELSE {outcome.job}

\* All orders in which ranging over a map with the keys S can visit them.
Orderings(S) ==
  {o \in [1..Cardinality(S) -> S] : \A a, b \in 1..Cardinality(S) : a # b => o[a] # o[b]}

RRRegisterClient ==
  /\ nextClient <= MaxRotation
  /\ clients' = [c \in DOMAIN clients \cup {nextClient} |->
                   IF c = nextClient THEN [LastActive |-> now, pendingJobs |-> << >>]
                   ELSE clients[c]]
  /\ clientOrder' = Append(clientOrder, nextClient)
  /\ nextClient' = nextClient + 1
  /\ lastOp' = [op |-> "RegisterClient", client |-> nextClient, job |-> 0,
                err |-> "nil", timedOut |-> FALSE]
  /\ UNCHANGED <<now, nextJob, rrCapacity, activeJobs, completedJobs, currentIndex,
                 rrTasks, nonRR>>

RRRegisterJob(c) ==
  /\ IF c \notin DOMAIN clients
       THEN /\ lastOp' = [op |-> "RegisterJob", client |-> c, job |-> 0,
                          err |-> "ErrorClientNotActive", timedOut |-> FALSE]
            /\ UNCHANGED <<nextJob, clients, activeJobs, currentIndex, rrTasks>>
       ELSE /\ nextJob <= MaxJobs
            /\ LET queued == [clients EXCEPT
                                ![c].pendingJobs = Append(@, nextJob),
                                ![c].LastActive = now]
                   outcome == IF clientOrder[currentIndex + 1] = c
                                THEN ProcessNextJob(queued, activeJobs \cup {nextJob},
                                                    clientOrder, currentIndex)
                                ELSE [clients |-> queued, index |-> currentIndex, job |-> 0]
               IN /\ clients' = outcome.clients
                  /\ currentIndex' = outcome.index
                  /\ rrTasks' = rrTasks \cup Started(outcome)
            /\ activeJobs' = activeJobs \cup {nextJob}
            /\ nextJob' = nextJob + 1
            /\ lastOp' = [op |-> "RegisterJob", client |-> c, job |-> nextJob,
                          err |-> "nil", timedOut |-> FALSE]
  /\ UNCHANGED <<now, nextClient, rrCapacity, completedJobs, clientOrder, nonRR>>

\* The goroutine started by "go b.processJobFn(jobID)": after jobDuration it calls
\* processJob.
RRProcessJob(j) ==
  /\ j \in rrTasks
  /\ IF j \in activeJobs
       THEN LET outcome == ProcessNextJob(clients, activeJobs \ {j}, clientOrder, currentIndex)
            IN /\ completedJobs' = [k \in DOMAIN completedJobs \cup {j} |->
                                      IF k = j THEN now ELSE completedJobs[k]]
               /\ activeJobs' = activeJobs \ {j}
               /\ clients' = outcome.clients
               /\ currentIndex' = outcome.index
               /\ rrTasks' = (rrTasks \ {j}) \cup Started(outcome)
       ELSE /\ rrTasks' = rrTasks \ {j}
            /\ UNCHANGED <<completedJobs, activeJobs, clients, currentIndex>>
  /\ UNCHANGED <<lastOp, now, nextClient, nextJob, rrCapacity, clientOrder, nonRR>>

RRDeregister(c) ==
  /\ IF c \notin DOMAIN clients
       THEN /\ lastOp' = [op |-> "Deregister", client |-> c, job |-> 0,
                          err |-> "ErrorClientNotFound", timedOut |-> FALSE]
            /\ UNCHANGED <<clients, clientOrder, currentIndex>>
       ELSE /\ clients' = [k \in DOMAIN clients \ {c} |-> clients[k]]
            /\ IF \E i \in 1..Len(clientOrder) : clientOrder[i] = c
                 THEN LET i == CHOOSE i \in 1..Len(clientOrder) :
                                 /\ clientOrder[i] = c
                                 /\ \A k \in 1..(i - 1) : clientOrder[k] # c
                          order == RemoveAt(clientOrder, i)
                          moved == IF i - 1 < currentIndex THEN currentIndex - 1
                                   ELSE currentIndex
                      IN /\ clientOrder' = order
                         /\ currentIndex' = IF moved >= Len(order) THEN 0 ELSE moved
                 ELSE UNCHANGED <<clientOrder, currentIndex>>
            /\ lastOp' = [op |-> "Deregister", client |-> c, job |-> 0,
                          err |-> "nil", timedOut |-> FALSE]
  /\ UNCHANGED <<now, nextClient, nextJob, rrCapacity, activeJobs, completedJobs,
                 rrTasks, nonRR>>

\* Mutant of Evictable: the pending queue is not looked at.
Evictable_IgnoresQueue(c) == now - clients[c].LastActive >= Minute

\* cleanupInactiveClients: "now.Sub(client.LastActive) >= time.Minute &&
\* len(client.pendingJobs) == 0"
Evictable(c) ==
  /\ now - clients[c].LastActive >= Minute
  /\ Len(clients[c].pendingJobs) = 0

\* One tick of cleanupInactiveClients: the new rotation is built in the order in
\* which "for id, client := range b.clients" visits the map.
RRCleanupInactiveClientsBody ==
  /\ LET kept == {c \in DOMAIN clients : ~Evictable(c)}
     IN /\ clients' = [c \in kept |-> clients[c]]
        /\ \E newOrder \in Orderings(kept) :
             /\ clientOrder' = newOrder
             /\ currentIndex' = IF currentIndex >= Len(newOrder) THEN 0 ELSE currentIndex
  /\ UNCHANGED <<lastOp, now, nextClient, nextJob, rrCapacity, activeJobs, completedJobs,
                 rrTasks, otherRR>>

\* One tick of cleanupInactiveClients, taken as one step.
RRCleanupInactiveClients ==
  /\ Running(Sweep("rr.cleanupInactiveClients"))
  /\ RRCleanupInactiveClientsBody
  /\ UNCHANGED loopVars

\* The ticker.C case of cleanupFinishedJobs.
RRCleanupFinishedJobsBody ==
  /\ LET kept == {j \in DOMAIN completedJobs : ~(now - completedJobs[j] > Minute)}
     IN completedJobs' = [j \in kept |-> completedJobs[j]]
  /\ UNCHANGED <<lastOp, now, nextClient, nextJob, rrCapacity, clients, activeJobs, clientOrder,
                 currentIndex, rrTasks, otherRR>>

\* One tick of cleanupFinishedJobs, taken as one step.
RRCleanupFinishedJobs ==
  /\ Running(Sweep("rr.cleanupFinishedJobs"))
  /\ RRCleanupFinishedJobsBody
  /\ UNCHANGED loopVars

\* The CompletedAt of the entry of job j in b.activeJobs: RegisterJob stores
\* Job{ID, CreatedAt} and nothing writes the entry afterwards (processJob sets
\* CompletedAt on its copy, which it stores in b.completedJobs).
ActiveCompletedAt(j) == ZeroTime

\* RoundRobinBalancer.GetJobStatus: what the call returns for job ID j (the call
\* changes no state). It looks the job up in b.activeJobs only.
RRGetJobStatus(j) ==
  IF j \notin activeJobs THEN "ErrorJobNotFound"
  ELSE IF ActiveCompletedAt(j) = ZeroTime THEN "pending"
  ELSE "finished"

NextRR ==
  \/ RRRegisterClient
  \/ \E c \in RRClientIDs : RRRegisterJob(c)
  \/ \E c \in RRClientIDs : RRDeregister(c)
  \/ \E j \in JobIDs : RRProcessJob(j)
  \/ RRCleanupInactiveClients
  \/ RRCleanupFinishedJobs
  \/ Tick

----------------------------------------------------------------------------
(***************************************************************************)
(* singleclient.Balancer: the prototype of the single-client strategy.     *)
(*                                                                         *)
(* Its callers (the package's test) call the API from one goroutine, so a  *)
(* call is one step; the goroutines started by "go b.releasePermit()" run  *)
(* concurrently with the calls.                                            *)
(***************************************************************************)

ProtoClients == 1..MaxClients

\* The nil *Client.
NoProtoClient == 0

\* The goroutines that call the API concurrently.
Callers == 1..MaxCalls

\* A goroutine that is in no call.
Idle == [pc |-> "idle", client |-> NoProtoClient]

InitProto(permits, slots) ==
  /\ requestCapacity \in permits
  /\ clientCapacity \in slots
  /\ clientQueue = << >>
  /\ protoActive = NoProtoClient
  /\ activeRequests = 0
  /\ releasing = 0
  /\ nextProtoClient = 1
  /\ protoOp = [op |-> "none", client |-> NoProtoClient, ret |-> "nil"]
  /\ calls = [k \in Callers |-> Idle]
  /\ returned = {}
  /\ deregistered = {}

\* "case b.clientQueue <- client" can proceed: the channel's buffer has room.
QueueHasRoom == Len(clientQueue) < clientCapacity

\* "b.activeRequests < b.requestCapacity" in RequestPermit.
PermitFree_OneMore == activeRequests <= requestCapacity

PermitFree == activeRequests < requestCapacity

\* switchToNextClient: the oldest client in the channel becomes active, or
\* nobody when the channel is empty.
SwitchToNextClient_Newest(q) ==
  IF q # << >> THEN [active |-> q[Len(q)], queue |-> SubSeq(q, 1, Len(q) - 1)]
  ELSE [active |-> NoProtoClient, queue |-> q]

SwitchToNextClient(q) ==
  IF q # << >> THEN [active |-> Head(q), queue |-> Tail(q)]
  ELSE [active |-> NoProtoClient, queue |-> q]

ProtoRegisterClient ==
  /\ IF protoActive = NoProtoClient
       THEN /\ nextProtoClient <= MaxClients
            /\ protoActive' = nextProtoClient
            /\ nextProtoClient' = nextProtoClient + 1
            /\ protoOp' = [op |-> "RegisterClient", client |-> nextProtoClient, ret |-> "nil"]
            /\ UNCHANGED clientQueue
       ELSE IF QueueHasRoom
       THEN /\ nextProtoClient <= MaxClients
            /\ clientQueue' = Append(clientQueue, nextProtoClient)
            /\ nextProtoClient' = nextProtoClient + 1
            /\ protoOp' = [op |-> "RegisterClient", client |-> nextProtoClient, ret |-> "nil"]
            /\ UNCHANGED protoActive
       ELSE /\ protoOp' = [op |-> "RegisterClient", client |-> NoProtoClient,
                           ret |-> "ErrQueueFull"]
            /\ UNCHANGED <<protoActive, clientQueue, nextProtoClient>>
  /\ UNCHANGED <<requestCapacity, clientCapacity, activeRequests, releasing, nonProto>>

\* RequestPermit(c), c being nil or a client returned by RegisterClient.
ProtoRequestPermit(c) ==
  /\ c < nextProtoClient
  /\ IF c = NoProtoClient \/ protoActive # c
       THEN /\ protoOp' = [op |-> "RequestPermit", client |-> c, ret |-> "false"]
            /\ UNCHANGED <<activeRequests, releasing>>
       ELSE IF PermitFree
       THEN /\ activeRequests' = activeRequests + 1
            /\ releasing' = releasing + 1
            /\ protoOp' = [op |-> "RequestPermit", client |-> c, ret |-> "true"]
       ELSE /\ protoOp' = [op |-> "RequestPermit", client |-> c, ret |-> "false"]
            /\ UNCHANGED <<activeRequests, releasing>>
  /\ UNCHANGED <<requestCapacity, clientCapacity, clientQueue, protoActive, nextProtoClient,
                 nonProto>>

\* A goroutine started by "go b.releasePermit()" wakes up after releaseInterval
\* and decrements the count if it is positive.
ProtoReleasePermit ==
  /\ releasing > 0
  /\ releasing' = releasing - 1
  /\ activeRequests' = IF activeRequests > 0 THEN activeRequests - 1 ELSE activeRequests
  /\ UNCHANGED <<requestCapacity, clientCapacity, clientQueue, protoActive, nextProtoClient,
                 protoOp, nonProto>>

\* DeregisterClient(c), c being nil or a client returned by RegisterClient.
ProtoDeregisterClient(c) ==
  /\ c < nextProtoClient
  /\ IF protoActive = c
       THEN /\ protoActive' = SwitchToNextClient(clientQueue).active
            /\ clientQueue' = SwitchToNextClient(clientQueue).queue
       ELSE UNCHANGED <<protoActive, clientQueue>>
  /\ protoOp' = [op |-> "DeregisterClient", client |-> c, ret |-> "nil"]
  /\ UNCHANGED <<requestCapacity, clientCapacity, activeRequests, releasing, nextProtoClient,
                 nonProto>>

NextProto ==
  \/ ProtoRegisterClient
  \/ \E c \in ProtoClients \cup {NoProtoClient} : ProtoRequestPermit(c)
  \/ \E c \in ProtoClients \cup {NoProtoClient} : ProtoDeregisterClient(c)
  \/ ProtoReleasePermit

(***************************************************************************)
(* singleclient.Balancer called from several goroutines.                   *)
(*                                                                         *)
(* RegisterClient, DeregisterClient and switchToNextClient take no lock:   *)
(* the reads and the writes of b.activeClient are steps of their own, and  *)
(* the steps of concurrent calls interleave. The channel operations are    *)
(* atomic.                                                                 *)
(***************************************************************************)

\* RegisterClient, "if b.activeClient == nil": the call allocates its client
\* and reads b.activeClient; it goes on to the assignment or to the select.
ConcRegisterRead(k) ==
  /\ calls[k] = Idle
  /\ nextProtoClient <= MaxClients
  /\ nextProtoClient' = nextProtoClient + 1
  /\ calls' = [calls EXCEPT ![k] =
                 [pc |-> IF protoActive = NoProtoClient THEN "store" ELSE "send",
                  client |-> nextProtoClient]]
  /\ UNCHANGED <<requestCapacity, clientCapacity, clientQueue, protoActive, activeRequests,
                 releasing, protoOp, returned, deregistered, nonProtoConc>>

\* RegisterClient, "b.activeClient = client; return client, nil".
ConcRegisterStore(k) ==
  /\ calls[k].pc = "store"
  /\ protoActive' = calls[k].client
  /\ returned' = returned \cup {calls[k].client}
  /\ protoOp' = [op |-> "RegisterClient", client |-> calls[k].client, ret |-> "nil"]
  /\ calls' = [calls EXCEPT ![k] = Idle]
  /\ UNCHANGED <<requestCapacity, clientCapacity, clientQueue, activeRequests, releasing,
                 nextProtoClient, deregistered, nonProtoConc>>

\* RegisterClient, the select: the client is sent to the channel, or the
\* channel is full and the call returns ErrQueueFull.
ConcRegisterSend(k) ==
  /\ calls[k].pc = "send"
  /\ IF QueueHasRoom
       THEN /\ clientQueue' = Append(clientQueue, calls[k].client)
            /\ returned' = returned \cup {calls[k].client}
            /\ protoOp' = [op |-> "RegisterClient", client |-> calls[k].client,
                           ret |-> "nil"]
       ELSE /\ protoOp' = [op |-> "RegisterClient", client |-> NoProtoClient,
                           ret |-> "ErrQueueFull"]
            /\ UNCHANGED <<clientQueue, returned>>
  /\ calls' = [calls EXCEPT ![k] = Idle]
  /\ UNCHANGED <<requestCapacity, clientCapacity, protoActive, activeRequests, releasing,
                 nextProtoClient, deregistered, nonProtoConc>>

\* DeregisterClient(c), "if b.activeClient == c", c being a client that
\* RegisterClient returned: the call goes on to switchToNextClient or returns.
ConcDeregisterRead(k, c) ==
  /\ calls[k] = Idle
  /\ c \in returned
  /\ deregistered' = deregistered \cup {c}
  /\ protoOp' = [op |-> "DeregisterClient", client |-> c, ret |-> "nil"]
  /\ calls' = [calls EXCEPT ![k] =
                 IF protoActive = c THEN [pc |-> "switch", client |-> c] ELSE Idle]
  /\ UNCHANGED <<requestCapacity, clientCapacity, clientQueue, protoActive, activeRequests,
                 releasing, nextProtoClient, returned, nonProtoConc>>

\* switchToNextClient, the select: the oldest client of the channel is
\* received, or the channel is empty and nil is chosen.
ConcSwitchReceive(k) ==
  /\ calls[k].pc = "switch"
  /\ calls' = [calls EXCEPT ![k] =
                 [pc |-> "assign", client |-> SwitchToNextClient(clientQueue).active]]
  /\ clientQueue' = SwitchToNextClient(clientQueue).queue
  /\ UNCHANGED <<requestCapacity, clientCapacity, protoActive, activeRequests, releasing,
                 nextProtoClient, protoOp, returned, deregistered, nonProtoConc>>

\* switchToNextClient, "b.activeClient = nextClient" or "b.activeClient = nil".
ConcSwitchAssign(k) ==
  /\ calls[k].pc = "assign"
  /\ protoActive' = calls[k].client
  /\ calls' = [calls EXCEPT ![k] = Idle]
  /\ UNCHANGED <<requestCapacity, clientCapacity, clientQueue, activeRequests, releasing,
                 nextProtoClient, protoOp, returned, deregistered, nonProtoConc>>

NextProtoConc ==
  \/ \E k \in Callers : ConcRegisterRead(k)
  \/ \E k \in Callers : ConcRegisterStore(k)
  \/ \E k \in Callers : ConcRegisterSend(k)
  \/ \E k \in Callers, c \in ProtoClients : ConcDeregisterRead(k, c)
  \/ \E k \in Callers : ConcSwitchReceive(k)
  \/ \E k \in Callers : ConcSwitchAssign(k)

----------------------------------------------------------------------------

(***************************************************************************)
(* auth.AuthHandler: the registry of client names.                         *)
(***************************************************************************)

AuthNames == 1..MaxNames

\* "5*time.Minute" in cleanupClients; the clock of the registry is counted in
\* units of five minutes.
AuthTTL == 1

InitAuth ==
  /\ authClients = << >>
  /\ lastSeen = << >>
  /\ authOp = [op |-> "none", name |-> 0, ok |-> FALSE]

\* VerifyRegistered reports whether the name is a key of h.clients; it writes
\* nothing.
VerifyRegistered(n) == n \in DOMAIN authClients

\* RegisterClient stores the client under its name, stamped with the current
\* time, replacing an entry of the same name.
AuthRegisterClient(n) ==
  /\ authClients' = [m \in DOMAIN authClients \cup {n} |->
                       IF m = n THEN now ELSE authClients[m]]
  /\ lastSeen' = [m \in DOMAIN lastSeen \cup {n} |-> IF m = n THEN now ELSE lastSeen[m]]
  /\ authOp' = [op |-> "RegisterClient", name |-> n, ok |-> TRUE]
  /\ UNCHANGED <<sharedVars, nonAuth>>

\* WithConditionalAuth verifies the name in the Authorization header of a
\* request.
AuthVerify(n) ==
  /\ authOp' = [op |-> "VerifyRegistered", name |-> n, ok |-> VerifyRegistered(n)]
  /\ lastSeen' = IF VerifyRegistered(n) /\ n \in DOMAIN lastSeen
                   THEN [lastSeen EXCEPT ![n] = now]
                   ELSE lastSeen
  /\ UNCHANGED <<authClients, sharedVars, nonAuth>>

\* The entries one tick of cleanupClients deletes.
Expired == {n \in DOMAIN authClients : Since(authClients[n]) > AuthTTL}

\* The ticker.C case of cleanupClients.
AuthCleanupClientsBody ==
  /\ authClients' = [n \in DOMAIN authClients \ Expired |-> authClients[n]]
  /\ lastSeen' = [n \in DOMAIN authClients \ Expired |-> lastSeen[n]]
  /\ authOp' = [op |-> "cleanupClients", name |-> 0, ok |-> TRUE]
  /\ UNCHANGED <<sharedVars, otherAuth>>

\* One tick of cleanupClients, taken as one step.
AuthCleanupClients ==
  /\ Running(Sweep("auth.cleanupClients"))
  /\ AuthCleanupClientsBody
  /\ UNCHANGED loopVars

NextAuth ==
  \/ \E n \in AuthNames : AuthRegisterClient(n)
  \/ \E n \in AuthNames : AuthVerify(n)
  \/ AuthCleanupClients
  \/ Tick

----------------------------------------------------------------------------

(***************************************************************************)
(* The process-wide context and the background loops.                      *)
(*                                                                         *)
(* Every loop is "for { select { case <-ctx.Done(): return;                *)
(* case <-ticker.C: body } }". Time is counted per loop in ticks of its    *)
(* own ticker. A loop waiting in select with a ready case takes one before *)
(* its ticker fires again; the sweeps' bodies take less than one interval. *)
(***************************************************************************)

\* The probe of a health monitor is "httpClient.Get(url)", which does not take
\* the context; it returns within the client's Timeout (RequestTimeout, 10 s),
\* that is within two ticks of HealthCheckInterval (5 s).
ProbeMax == 2

InitLoops ==
  /\ cancelled = FALSE
  /\ exited = {}
  /\ probing = {}
  /\ tickerReady = {}
  /\ probeTicks = << >>
  /\ lateTicks = << >>

\* The loop waits in select.
AtSelect(l) == l \notin exited /\ l \notin probing

\* The ticks of loop l's ticker since the cancellation.
LateTicks(l) == IF l \in DOMAIN lateTicks THEN lateTicks[l] ELSE 0

progVars == <<poolVars, sharedVars, scVars, rrVars, authVars, protoVars, apiVars, concVars>>

\* triggerShutdown: the first call cancels the context.
Cancel ==
  /\ ~cancelled
  /\ cancelled' = TRUE
  /\ UNCHANGED <<exited, probing, tickerReady, probeTicks, lateTicks, progVars>>

\* The ticker of loop l fires: a tick is put in ticker.C (which holds one tick; a
\* tick that finds it full is dropped).
TickerFire(l) ==
  /\ Running(l)
  /\ AtSelect(l) => l \notin tickerReady /\ ~cancelled
  /\ l \in probing => probeTicks[l] < ProbeMax
  /\ tickerReady' = tickerReady \cup {l}
  /\ probeTicks' = IF l \in probing THEN [probeTicks EXCEPT ![l] = @ + 1] ELSE probeTicks
  /\ lateTicks' = IF cancelled /\ LateTicks(l) < MaxLate
                    THEN [m \in DOMAIN lateTicks \cup {l} |->
                            IF m = l THEN LateTicks(l) + 1 ELSE lateTicks[m]]
                    ELSE lateTicks
  /\ UNCHANGED <<cancelled, exited, probing, progVars>>

\* select takes "case <-ctx.Done()": the loop returns (and its deferred
\* ticker.Stop runs).
LoopExit(l) ==
  /\ AtSelect(l)
  /\ cancelled
  /\ exited' = exited \cup {l}
  /\ tickerReady' = tickerReady \ {l}
  /\ UNCHANGED <<cancelled, probing, probeTicks, lateTicks, progVars>>

\* select of a health monitor takes "case <-ticker.C" and the probe starts. When
\* the context is cancelled as well, select takes either case.
HealthProbeStart(s) ==
  /\ s \in Servers
  /\ AtSelect(HealthLoop(s))
  /\ HealthLoop(s) \in tickerReady
  /\ probing' = probing \cup {HealthLoop(s)}
  /\ tickerReady' = tickerReady \ {HealthLoop(s)}
  /\ probeTicks' = [m \in probing' |-> IF m = HealthLoop(s) THEN 0 ELSE probeTicks[m]]
  /\ UNCHANGED <<cancelled, exited, lateTicks, progVars>>

\* The probe returns, its outcome is stored and the loop is back at select.
HealthProbeDone(s, ok) ==
  /\ s \in Servers
  /\ HealthLoop(s) \in probing
  /\ HealthCheckBody(s, ok)
  /\ probing' = probing \ {HealthLoop(s)}
  /\ probeTicks' = [m \in probing' |-> probeTicks[m]]
  /\ UNCHANGED <<cancelled, exited, tickerReady, lateTicks>>

\* The body of the sweep of kind k.
SweepBody(k) ==
  CASE k = "auth.cleanupClients" -> AuthCleanupClientsBody
    [] k = "sc.cleanupInactiveClients" -> SCCleanupInactiveClientsBody
    [] k = "sc.cleanupFinishedJobs" -> SCCleanupFinishedJobsBody
    [] k = "rr.cleanupInactiveClients" -> RRCleanupInactiveClientsBody
    [] k = "rr.cleanupFinishedJobs" -> RRCleanupFinishedJobsBody

\* select of a sweep takes "case <-ticker.C" and the body runs. When the context
\* is cancelled as well, select takes either case.
SweepTick(k) ==
  /\ AtSelect(Sweep(k))
  /\ Sweep(k) \in tickerReady
  /\ SweepBody(k)
  /\ tickerReady' = tickerReady \ {Sweep(k)}
  /\ UNCHANGED <<cancelled, exited, probing, probeTicks, lateTicks>>

NextLoops ==
  \/ Cancel
  \/ \E l \in Loops : TickerFire(l)
  \/ \E l \in Loops : LoopExit(l)
  \/ \E s \in Servers : HealthProbeStart(s)
  \/ \E s \in Servers, o \in ProbeOutcomes : HealthProbeDone(s, ~ProbeFailed(o))
  \/ \E k \in SweepKinds : SweepTick(k)

----------------------------------------------------------------------------

(***************************************************************************)
(* Specifications.                                                         *)
(***************************************************************************)

\* The proxy pool with requests interleaving at every step.
InitConc ==
  InitPool("conc", 0..MaxServers, 1..MaxCap) /\ InitShared /\ InitSC({1}) /\ InitRR({1}) /\ InitAuth /\ InitLoops
     /\ InitProto({1}, {1})

\* The proxy pool with requests interleaving between the calls of the pool's
\* methods, each call taken as one step.
InitGate ==
  InitPool("gate", 0..MaxServers, 1..MaxCap) /\ InitShared /\ InitSC({1}) /\ InitRR({1}) /\ InitAuth /\ InitLoops
     /\ InitProto({1}, {1})

\* The proxy pool with one request at a time.
InitSeq ==
  InitPool("seq", 0..MaxServers, 1..MaxCap) /\ InitShared /\ InitSC({1}) /\ InitRR({1}) /\ InitAuth /\ InitLoops
     /\ InitProto({1}, {1})

\* The pool's methods called directly, one call at a time.
InitApi ==
  InitPool("api", 0..MaxServers, 1..MaxCap) /\ InitShared /\ InitSC({1}) /\ InitRR({1}) /\ InitAuth /\ InitLoops
     /\ InitProto({1}, {1})

InitSingleClient ==
  InitPool("seq", {0}, {1}) /\ InitShared /\ InitSC(1..MaxSingleCap) /\ InitRR({1}) /\ InitAuth /\ InitLoops
     /\ InitProto({1}, {1})

\* The auth registry on its own.
InitAuthRegistry ==
  InitPool("seq", {0}, {1}) /\ InitShared /\ InitSC({1}) /\ InitRR({1}) /\ InitAuth /\ InitLoops
     /\ InitProto({1}, {1})

\* The background loops of a process with one backend.
InitBackground ==
  InitPool("seq", {1}, {1}) /\ InitShared /\ InitSC({1}) /\ InitRR({1}) /\ InitAuth /\ InitLoops
     /\ InitProto({1}, {1})

\* The prototype balancer on its own.
InitPrototype ==
  InitPool("seq", {0}, {1}) /\ InitShared /\ InitSC({1}) /\ InitRR({1}) /\ InitAuth /\ InitLoops
     /\ InitProto(1..MaxPermits, 0..MaxQueue)

InitRoundRobin ==
  InitPool("seq", {0}, {1}) /\ InitShared /\ InitSC({1}) /\ InitRR(1..MaxStrategyCap) /\ InitAuth /\ InitLoops
     /\ InitProto({1}, {1})

SpecPool == InitConc /\ [][NextPool]_vars
SpecGate == InitGate /\ [][NextGate]_vars
SpecPoolSeq == InitSeq /\ [][NextPool]_vars
SpecApi == InitApi /\ [][NextApi]_vars
SpecSC == InitSingleClient /\ [][NextSC]_vars
SpecRR == InitRoundRobin /\ [][NextRR]_vars
SpecAuth == InitAuthRegistry /\ [][NextAuth]_vars
SpecLoops == InitBackground /\ [][NextLoops]_vars
SpecProto == InitPrototype /\ [][NextProto]_vars
SpecProtoConc == InitPrototype /\ [][NextProtoConc]_vars
SpecOld == InitSingleClient /\ [][NextOld]_vars

\* Every goroutine started by "go b.completeJob(jobID)" eventually runs
\* completeRequest.
FairSpecSC ==
  /\ SpecSC
  /\ \A j \in JobIDs : WF_vars(SCCompleteRequest(j))

\* Every goroutine started by "go b.processJobFn(jobID)" eventually runs processJob,
\* the tickers of the two sweeps keep firing and time passes.
FairSpecRR ==
  /\ SpecRR
  /\ \A j \in JobIDs : WF_vars(RRProcessJob(j))
  /\ WF_vars(RRCleanupInactiveClients)
  /\ WF_vars(RRCleanupFinishedJobs)
  /\ WF_vars(Tick)


----------------------------------------------------------------------------
(***************************************************************************)
(* Properties of the proxy pool.                                           *)
(***************************************************************************)

\* C1: in every reachable state the number of held slots (the length of the
\* capacity channel) is in [0, maxCapacity], and so is GetAvailableCapacity.
C1_CapacityWithinBounds ==
  /\ capacity \in 0..maxCapacity
  /\ GetAvailableCapacity \in 0..maxCapacity

\* C1 witness: the gate is full, a holder has not released yet and another
\* request is waiting in AcquireCapacityWithTimeout.
C1_Witness ==
  /\ capacity = maxCapacity
  /\ \E r, q \in Requests : r # q /\ pc[r] = "acquire" /\ held[q] /\ pc[q] = "release"

\* C2: a request that acquired a slot has released it when the handler returns
\* (also after ErrNoServers or ErrNoHealthyServers), and whenever no request is
\* in flight the available capacity equals maxCapacity.
C2_SlotReleasedBeforeReturn ==
  /\ \A r \in Requests : pc[r] = "done" => ~held[r]
  /\ (\A r \in Requests : pc[r] = "idle") => GetAvailableCapacity = maxCapacity

AllAlive == \A s \in Servers : alive[s]
NoneAlive == \A s \in Servers : ~alive[s]

\* C7: with N >= 1 backends all alive and no flag change, N consecutive
\* sequential successful NextServer calls return each backend once, in list
\* order from the cursor position before the first call, and leave the cursor
\* at that position.
C7_RoundRobinProgress ==
  (numServers >= 1 /\ AllAlive /\ Len(served) >= numServers) =>
    LET w == SeqLast(served, numServers)
    IN /\ \A k \in 1..numServers : w[k].ret = (w[1].before + k - 1) % numServers
       /\ {w[k].ret : k \in 1..numServers} = Servers
       /\ w[numServers].after = w[1].before

\* C7 witness: two or more backends, all alive, and a full round of calls that
\* began with the cursor away from 0 has returned.
C7_Witness ==
  /\ numServers >= 2
  /\ AllAlive
  /\ Len(served) >= numServers
  /\ SeqLast(served, numServers)[1].before # 0

\* The first backend alive at or after cursor c in rotation order (NoServer when
\* none is alive).
FirstAliveFrom(c) ==
  LET offsets == {k \in 0..(numServers - 1) : alive[(c + k) % numServers]}
  IN IF offsets = {} THEN NoServer
     ELSE (c + (CHOOSE k \in offsets : \A m \in offsets : k <= m)) % numServers

\* A NextServer call of request r has returned.
Returned(r) == pc[r] \in {"serve", "release", "done"}

\* What C8 says of a returned call r made with stable flags.
C8_Contract(r) ==
  /\ result[r] = "ok" => sawAlive[r]
  /\ (numServers >= 1 /\ ~NoneAlive) =>
       (result[r] = "ok" /\ srv[r] = FirstAliveFrom(cursorAtCall[r]))
  /\ result[r] = "ErrNoHealthyServers" <=> (numServers >= 1 /\ NoneAlive)

----------------------------------------------------------------------------
(***************************************************************************)
(* Properties of the single-client strategy.                               *)
(***************************************************************************)

\* The step is a call op(c) of the single-client strategy. (The record of the
\* call is looked at first: it tells most steps apart at once.)
SCCall(op, c) ==
  /\ lastOp'.op = op
  /\ lastOp'.client = c
  /\ CASE op = "RegisterJob" -> SCRegisterJob(c)
       [] op = "Deregister" -> SCDeregister(c)

\* The IDs of a sequence of clients, in order.
IDsOf(w) == [i \in 1..Len(w) |-> w[i].ID]

WaitingIDs == {waitingClients[i].ID : i \in 1..Len(waitingClients)}

IsActive(c) == activeClient # NoClient /\ activeClient.ID = c

C3_State ==
  /\ Cardinality({c \in SCClientIDs : IsActive(c)}) <= 1
  /\ activeClient # NoClient => activeClient.ID \notin WaitingIDs
  /\ Cardinality(WaitingIDs) = Len(waitingClients)

C3_Step ==
  \A c \in {lastOp'.client} \cap SCClientIDs :
    SCCall("RegisterJob", c) =>
      /\ lastOp'.job # 0 => IsActive(c)
      /\ c \in WaitingIDs =>
           /\ lastOp'.err = "ErrorClientNotActive"
           /\ lastOp'.job = 0
           /\ UNCHANGED <<activeClient, waitingClients, jobs, scTasks>>

\* C3: at most one client is active, the active client is not in the waiting
\* sequence, no ID occurs twice in the waiting sequence, RegisterJob returns a
\* job ID only to the active client, and for a waiting client it returns
\* client-not-active and changes no state.
C3_SingleClientExclusivity == []C3_State /\ [][C3_Step]_vars

\* C3 witness: a client that is waiting behind an active client has just been
\* refused by RegisterJob.
C3_Witness ==
  /\ activeClient # NoClient
  /\ lastOp.op = "RegisterJob"
  /\ lastOp.client \in WaitingIDs
  /\ lastOp.err = "ErrorClientNotActive"

\* The step removes the active client.
ActiveRemoved == activeClient # NoClient /\ activeClient'.ID # activeClient.ID

\* The head of the waiting sequence becomes active, or nobody when it is empty.
HeadPromoted ==
  IF waitingClients # << >>
    THEN activeClient'.ID = Head(waitingClients).ID
    ELSE activeClient' = NoClient /\ waitingClients' = << >>

\* The clients behind the head all stay, in order, each one position further up.
RestMovesUp ==
  waitingClients # << >> => IDsOf(waitingClients') = IDsOf(Tail(waitingClients))

\* The clients behind the head that are not idle beyond the session timeout stay,
\* in order; the others are dropped.
FreshRestStays ==
  waitingClients # << >> =>
    IDsOf(waitingClients') =
      IDsOf(SelectSeq(Tail(waitingClients),
                      LAMBDA x : now - x.LastActive <= SessionTimeout))

\* C4 as stated: whenever the active client is removed (by Deregister, by the
\* staleness check of RegisterJob or by the sweep), the head of the waiting
\* sequence becomes active in the same step and the remaining waiting clients
\* keep their order, each moving up one position; nobody is active afterwards
\* if the waiting sequence was empty.
C4_AsStated == [][ActiveRemoved => (HeadPromoted /\ RestMovesUp)]_vars

\* C4 amended: as stated for Deregister and RegisterJob; a sweep that removes the
\* active client promotes the head in the same step too, but also drops the
\* other waiting clients that are idle beyond the session timeout, and the
\* clients that are left keep their relative order.
C4_FifoPromotion ==
  [][ActiveRemoved =>
       /\ HeadPromoted
       /\ IF SCCleanupInactiveClients
            THEN FreshRestStays
            ELSE /\ \E c \in SCClientIDs : SCDeregister(c) \/ SCRegisterJob(c)
                 /\ RestMovesUp]_vars

\* C4 witness: a sweep has just evicted the stale active client and promoted the
\* head of the waiting sequence, and a client that was waiting behind the
\* promoted one is now first in the sequence.
C4_Witness ==
  /\ lastOp.op = "cleanupInactiveClients"
  /\ lastOp.timedOut
  /\ activeClient # NoClient
  /\ activeClient.LastActive = now
  /\ waitingClients # << >>
  /\ Head(waitingClients).ID > activeClient.ID

\* A RegisterJob(c) step made by the active client before its session timed out.
ActiveFreshCall(c) ==
  /\ IsActive(c)
  /\ now - activeClient.LastActive <= SessionTimeout
  /\ SCCall("RegisterJob", c)

C5_Step ==
  \A c \in {lastOp'.client} \cap SCClientIDs :
    ActiveFreshCall(c) =>
      /\ lastOp'.err = "ErrorServerAtCapacity" <=> Cardinality(DOMAIN jobs) >= scCapacity
      /\ lastOp'.err = "ErrorServerAtCapacity" =>
           UNCHANGED <<jobs, activeClient, waitingClients>>
      /\ lastOp'.err # "ErrorServerAtCapacity" =>
           /\ lastOp'.err = "nil"
           /\ DOMAIN jobs' = DOMAIN jobs \cup {lastOp'.job}
           /\ lastOp'.job \notin DOMAIN jobs
           /\ jobs'[lastOp'.job].CompletedAt = ZeroTime
           /\ \A j \in DOMAIN jobs : jobs'[j] = jobs[j]

\* C5: RegisterJob by the active, non-stale client returns server-at-capacity
\* exactly when the jobs map holds >= capacity entries, and then changes neither
\* the jobs nor the clients; otherwise it adds exactly one pending job. The
\* number of tracked jobs never exceeds the capacity.
C5_SingleClientCapacity ==
  [](Cardinality(DOMAIN jobs) <= scCapacity) /\ [][C5_Step]_vars

\* C5 witness: the active client has just been refused with server-at-capacity,
\* the jobs map holding exactly capacity entries.
C5_Witness ==
  /\ lastOp.op = "RegisterJob"
  /\ lastOp.err = "ErrorServerAtCapacity"
  /\ IsActive(lastOp.client)
  /\ Cardinality(DOMAIN jobs) = scCapacity

\* C6: RegisterJob by the active client whose last activity is older than the
\* session timeout returns client-not-active, records no job, evicts the client
\* and promotes the head of the waiting sequence (or leaves nobody active), also
\* when the jobs map is full.
C6_SessionTimeoutOnSubmit ==
  [][\A c \in {lastOp'.client} \cap SCClientIDs :
       (IsActive(c) /\ now - activeClient.LastActive > SessionTimeout
          /\ SCCall("RegisterJob", c)) =>
         /\ lastOp'.err = "ErrorClientNotActive"
         /\ lastOp'.job = 0
         /\ UNCHANGED <<jobs, scTasks>>
         /\ ActiveRemoved
         /\ HeadPromoted
         /\ RestMovesUp]_vars

\* C6 witness: a stale active client has just been refused as not active while
\* the jobs map was full, and the head of the waiting sequence took its place.
C6_Witness ==
  /\ lastOp.op = "RegisterJob"
  /\ lastOp.timedOut
  /\ lastOp.err = "ErrorClientNotActive"
  /\ Cardinality(DOMAIN jobs) >= scCapacity
  /\ activeClient # NoClient
  /\ activeClient.ID > lastOp.client
  /\ activeClient.LastActive = now

----------------------------------------------------------------------------
(***************************************************************************)
(* Properties of the round-robin strategy.                                 *)
(***************************************************************************)

\* Job j has completed, or it was never dispatched and the client it was accepted
\* for is no longer registered (no registered client holds it in its queue).
CompletedOrOrphaned(j) ==
  \/ j \in DOMAIN completedJobs
  \/ /\ j \notin rrTasks
     /\ \A c \in DOMAIN clients :
          \A i \in 1..Len(clients[c].pendingJobs) : clients[c].pendingJobs[i] # j

\* C9: with capacity >= 1 and fair scheduling of the completion tasks, every job
\* accepted by RegisterJob for a client that stays registered is eventually
\* dispatched and completed.
C9_EveryJobCompletes ==
  \A j \in JobIDs : (j \in activeJobs) ~> CompletedOrOrphaned(j)

\* C10: the number of jobs in process (handed to processJobFn and not yet
\* completed) is at most capacity in every reachable state.
C10_InProcessWithinCapacity == Cardinality(rrTasks) <= rrCapacity

\* C10 witness: a job is in process and the capacity check keeps another accepted
\* job of a registered client waiting in its queue.
C10_Witness ==
  /\ rrTasks # {}
  /\ Cardinality(activeJobs) >= rrCapacity
  /\ \E c \in DOMAIN clients : clients[c].pendingJobs # << >>

\* C11: RegisterJob for a registered client never fails, and a call of
\* processNextJob skips dispatching only when the number of dispatched,
\* uncompleted jobs is >= capacity: a RegisterJob by the client at the cursor
\* made while fewer than capacity jobs are in process dispatches a job.
C11_CapacityOnlyAtDispatch ==
  [][\A c \in RRClientIDs :
       (RRRegisterJob(c) /\ c \in DOMAIN clients) =>
         /\ lastOp'.err = "nil"
         /\ (clientOrder[currentIndex + 1] = c /\ Cardinality(rrTasks) < rrCapacity) =>
              Cardinality(rrTasks') = Cardinality(rrTasks) + 1]_vars

----------------------------------------------------------------------------
(***************************************************************************)
(* Properties of the single-client strategy: status queries, Deregister.   *)
(***************************************************************************)

\* What GetJobStatus returns in every state, by the stage of the job's life.
C12_State ==
  \A j \in JobIDs :
    /\ j >= nextJob => SCGetJobStatus(j) = "ErrorJobNotFound"
    /\ j \in scTasks => SCGetJobStatus(j) = "pending"
    /\ (j < nextJob /\ j \notin scTasks) =>
         SCGetJobStatus(j) \in {"finished", "ErrorJobNotFound"}

\* How the answer of GetJobStatus changes in one step.
C12_Step ==
  \/ jobs' = jobs
  \/ \A j \in JobIDs :
       /\ SCGetJobStatus(j) = "pending" => SCGetJobStatus(j)' \in {"pending", "finished"}
       /\ SCGetJobStatus(j) = "finished" =>
            /\ SCGetJobStatus(j)' \in {"finished", "ErrorJobNotFound"}
            /\ j \in DOMAIN jobs' => jobs'[j].CompletedAt = jobs[j].CompletedAt
       /\ (SCGetJobStatus(j) = "ErrorJobNotFound" /\ j < nextJob) =>
            SCGetJobStatus(j)' = "ErrorJobNotFound"

\* C12: GetJobStatus returns pending for an accepted job until its completion is
\* recorded, finished from then until the job is pruned, and job-not-found for
\* unknown and pruned IDs; the status never goes back from finished to pending,
\* a pruned job never comes back and a recorded completion time never changes.
C12_JobLifecycle == []C12_State /\ [][C12_Step]_vars

\* C12 witness: one accepted job has been pruned after its completion while
\* another one is reported finished.
C12_Witness ==
  /\ \E j \in JobIDs : j < nextJob /\ SCGetJobStatus(j) = "ErrorJobNotFound"
  /\ \E k \in JobIDs : SCGetJobStatus(k) = "finished"

\* What GetClientStatus returns in every state.
C15_State ==
  \A c \in SCClientIDs :
    /\ IsActive(c) <=> SCGetClientStatus(c) = [status |-> "active", position |-> 0, err |-> "nil"]
    /\ \A i \in 1..Len(waitingClients) :
         waitingClients[i].ID = c =>
           SCGetClientStatus(c) = [status |-> "queued", position |-> i, err |-> "nil"]
    /\ (~IsActive(c) /\ c \notin WaitingIDs) =>
         SCGetClientStatus(c).err = "ErrorClientNotFound"

\* What a RegisterClient step does.
C15_Step ==
  SCRegisterClient =>
    /\ lastOp'.err = "nil"
    /\ lastOp'.client = nextClient
    /\ IF activeClient = NoClient
         THEN /\ activeClient'.ID = nextClient
              /\ waitingClients' = waitingClients
         ELSE /\ activeClient' = activeClient
              /\ Len(waitingClients') = Len(waitingClients) + 1
              /\ SubSeq(waitingClients', 1, Len(waitingClients)) = waitingClients
              /\ waitingClients'[Len(waitingClients')].ID = nextClient

\* C15: RegisterClient always succeeds, the new client becoming active iff no
\* client is active and being appended at the tail of the waiting sequence
\* otherwise; GetClientStatus returns (active, 0) exactly for the active client,
\* (queued, i) for the client at 1-based index i of the waiting sequence and
\* client-not-found for every other ID.
C15_RegistrationAndStatus == []C15_State /\ [][C15_Step]_vars

\* C15 witness: RegisterClient has just appended a client behind another waiting
\* one, and GetClientStatus reports it queued at position 2.
C15_Witness ==
  /\ lastOp.op = "RegisterClient"
  /\ Len(waitingClients) = 2
  /\ waitingClients[2].ID = lastOp.client
  /\ SCGetClientStatus(lastOp.client) = [status |-> "queued", position |-> 2, err |-> "nil"]

\* C16: Deregister of a waiting client succeeds and removes exactly that client:
\* the active client and the jobs are unchanged, the clients ahead of it keep
\* their positions and every client behind it moves up by one position.
C16_DeregisterWaitingFrame ==
  [][\A c \in {lastOp'.client} \cap SCClientIDs :
       (~IsActive(c) /\ c \in WaitingIDs /\ SCCall("Deregister", c)) =>
         LET i == CHOOSE k \in 1..Len(waitingClients) : waitingClients[k].ID = c IN
         /\ lastOp'.err = "nil"
         /\ UNCHANGED <<activeClient, jobs, scTasks>>
         /\ Len(waitingClients') = Len(waitingClients) - 1
         /\ \A k \in 1..(i - 1) : waitingClients'[k] = waitingClients[k]
         /\ \A k \in (i + 1)..Len(waitingClients) : waitingClients'[k - 1] = waitingClients[k]]_vars

\* C16 witness: a waiting client has just deregistered and the client that was
\* behind it is now at the head of the waiting sequence, behind the same
\* active client.
C16_Witness ==
  /\ lastOp.op = "Deregister"
  /\ lastOp.err = "nil"
  /\ activeClient # NoClient
  /\ activeClient.ID < lastOp.client
  /\ waitingClients # << >>
  /\ Head(waitingClients).ID > lastOp.client

\* C17: Deregister with an ID that is neither the active client nor in the
\* waiting sequence returns client-not-found and leaves the active client, the
\* waiting sequence and the jobs unchanged.
C17_DeregisterUnknown ==
  [][\A c \in {lastOp'.client} \cap SCClientIDs :
       (~IsActive(c) /\ c \notin WaitingIDs /\ SCCall("Deregister", c)) =>
         /\ lastOp'.err = "ErrorClientNotFound"
         /\ UNCHANGED <<activeClient, waitingClients, jobs, scTasks>>]_vars

\* C17 witness: a client that was registered before and is gone (deregistered or
\* evicted) has just been refused by Deregister while other clients are active
\* and waiting.
C17_Witness ==
  /\ lastOp.op = "Deregister"
  /\ lastOp.err = "ErrorClientNotFound"
  /\ lastOp.client < nextClient
  /\ activeClient # NoClient
  /\ waitingClients # << >>

----------------------------------------------------------------------------
\* The jobs of the single-client strategy that are in process: accepted by
\* RegisterJob and not yet completed.
SCInProcess == {j \in DOMAIN jobs : jobs[j].CompletedAt = ZeroTime}

\* C20: whenever fewer jobs are in process than the capacity allows, RegisterJob
\* by the active client whose session has not timed out is accepted: a
\* completed job stops occupying capacity as soon as it completes.
C20_NoUnderUtilisation ==
  [][\A c \in SCClientIDs :
       (ActiveFreshCall(c) /\ Cardinality(SCInProcess) < scCapacity) =>
         /\ lastOp'.err = "nil"
         /\ lastOp'.job \in DOMAIN jobs']_vars

(***************************************************************************)
(* Properties of the round-robin strategy: status queries.                 *)
(***************************************************************************)

\* C13: GetJobStatus of the round-robin strategy returns pending for an accepted
\* job that has not completed, finished for a job that has completed and is
\* not yet garbage-collected, and job-not-found only for unknown and
\* garbage-collected jobs.
C13_RoundRobinJobStatus ==
  \A j \in JobIDs :
    /\ (j \in activeJobs /\ j \notin DOMAIN completedJobs) => RRGetJobStatus(j) = "pending"
    /\ j \in DOMAIN completedJobs => RRGetJobStatus(j) = "finished"
    /\ RRGetJobStatus(j) = "ErrorJobNotFound" =>
         (j \notin activeJobs /\ j \notin DOMAIN completedJobs)

----------------------------------------------------------------------------
(***************************************************************************)
(* Properties of the capacity gate: errors.                                *)
(***************************************************************************)

\* C14: AcquireCapacityWithTimeout returns the no-capacity error when the timeout
\* elapses without a free slot, and the outcome of a call that ends because
\* the caller's context is cancelled (here: while the channel has room, so that
\* the timeout cannot be what ended it) is a different one.
C14_TimeoutDistinctFromCancel ==
  [][\A r \in Requests :
       /\ AcquireTimeout(r) => result'[r] = "ErrNoCapacity"
       /\ (AcquireCancelled(r) /\ CanSend) => result'[r] # "ErrNoCapacity"]_vars

----------------------------------------------------------------------------
(***************************************************************************)
(* Properties of the auth registry.                                        *)
(***************************************************************************)

\* C19: a registered name is removed only by the sweep and only after it has
\* been idle (neither registered nor verified) for longer than the TTL, so a
\* client verified within the TTL stays registered; while it is registered,
\* VerifyRegistered returns true for it.
C19_ExpiryByIdleness ==
  /\ [](\A n \in DOMAIN authClients : VerifyRegistered(n))
  /\ [][\A n \in DOMAIN authClients :
          n \notin DOMAIN authClients' =>
            /\ AuthCleanupClients
            /\ Since(lastSeen[n]) > AuthTTL]_vars

----------------------------------------------------------------------------
(***************************************************************************)
(* Properties of the background loops.                                     *)
(***************************************************************************)

\* The shared state loop l writes.
WrittenBy(l) ==
  CASE l.kind = "startHealthCheck" -> <<alive[l.backend]>>
    [] l.kind = "auth.cleanupClients" -> <<authClients>>
    [] l.kind = "sc.cleanupInactiveClients" -> <<activeClient, waitingClients>>
    [] l.kind = "sc.cleanupFinishedJobs" -> <<jobs>>
    [] l.kind = "rr.cleanupInactiveClients" -> <<clients, clientOrder, currentIndex>>
    [] l.kind = "rr.cleanupFinishedJobs" -> <<completedJobs>>

\* C18: once the process-wide context is cancelled, no background loop (health
\* monitor, auth-registry sweep, client and job sweeps of the strategies) is
\* still running after more than one tick of its interval, so each of them
\* terminates; a loop that has exited stays exited and writes no shared state.
C18_LoopsStopOnCancel ==
  /\ [](\A l \in Loops : Running(l) => LateTicks(l) <= 1)
  /\ [][\A l \in Loops :
          ~Running(l) => /\ l \in exited'
                         /\ WrittenBy(l)' = WrittenBy(l)]_vars

----------------------------------------------------------------------------
(***************************************************************************)
(* Properties of the prototype singleclient.Balancer.                      *)
(***************************************************************************)

\* What a RequestPermit call and a release do to the count of permits.
C21_Step ==
  /\ protoOp'.op = "RequestPermit" =>
       \A c \in {protoOp'.client} :
         ProtoRequestPermit(c) =>
           /\ protoOp'.ret = "true" <=>
                (c # NoProtoClient /\ protoActive = c /\ activeRequests < requestCapacity)
           /\ activeRequests' = IF protoOp'.ret = "true" THEN activeRequests + 1
                                ELSE activeRequests
  /\ ProtoReleasePermit =>
       /\ activeRequests' = activeRequests - 1
       /\ releasing' = releasing - 1

\* C21: RequestPermit returns true exactly for the active client while fewer
\* than requestCapacity permits are outstanding and then takes one permit; the
\* count of outstanding permits stays in [0, requestCapacity]; every outstanding
\* permit has exactly one release pending, and a release gives back exactly one
\* permit.
C21_Permits ==
  /\ [](activeRequests \in 0..requestCapacity /\ releasing = activeRequests)
  /\ [][C21_Step]_vars

\* C21 witness: the active client has just been granted the last free permit;
\* requestCapacity permits are outstanding, each with its release pending.
C21_Witness ==
  /\ protoOp.op = "RequestPermit"
  /\ protoOp.ret = "true"
  /\ protoOp.client = protoActive
  /\ activeRequests = requestCapacity
  /\ releasing = requestCapacity

\* What a RegisterClient call and a DeregisterClient call of the active client do.
C22_Step ==
  /\ ProtoRegisterClient =>
       /\ protoOp'.ret = "ErrQueueFull" <=>
            (protoActive # NoProtoClient /\ Len(clientQueue) = clientCapacity)
       /\ protoOp'.ret = "ErrQueueFull" =>
            /\ protoOp'.client = NoProtoClient
            /\ UNCHANGED <<protoActive, clientQueue>>
       /\ protoOp'.ret # "ErrQueueFull" =>
            /\ protoOp'.ret = "nil"
            /\ protoOp'.client = nextProtoClient
            /\ IF protoActive = NoProtoClient
                 THEN protoActive' = protoOp'.client /\ UNCHANGED clientQueue
                 ELSE clientQueue' = Append(clientQueue, protoOp'.client)
                      /\ UNCHANGED protoActive
  /\ (protoOp'.op = "DeregisterClient" /\ protoActive # NoProtoClient) =>
       \A c \in {protoOp'.client} \cap {protoActive} :
         ProtoDeregisterClient(c) =>
           IF clientQueue # << >>
             THEN protoActive' = Head(clientQueue) /\ clientQueue' = Tail(clientQueue)
             ELSE protoActive' = NoProtoClient /\ clientQueue' = << >>

\* C22: RegisterClient makes the client active when nobody is, without using a
\* queue slot, and appends it to the queue otherwise; it returns ErrQueueFull and
\* no client exactly when a client is active and clientCapacity clients are
\* waiting, and then changes neither the active client nor the queue.
\* DeregisterClient of the active client makes the oldest waiting client active
\* (nobody when none waits). Clients wait only while somebody is active, and no
\* more than clientCapacity of them.
C22_Registration ==
  /\ [](/\ Len(clientQueue) <= clientCapacity
        /\ protoActive = NoProtoClient => clientQueue = << >>)
  /\ [][C22_Step]_vars

\* C22 witness: a registration has just been refused with ErrQueueFull, two
\* clients waiting behind an active client that was promoted from the queue.
C22_Witness ==
  /\ protoOp.op = "RegisterClient"
  /\ protoOp.ret = "ErrQueueFull"
  /\ Len(clientQueue) = 2
  /\ protoActive > 1
  /\ clientQueue[1] < clientQueue[2]

----------------------------------------------------------------------------
(***************************************************************************)
(* Properties of the pool's methods called directly.                       *)
(***************************************************************************)

\* What a ReleaseCapacity call does to the pool.
C23_Step ==
  CallReleaseCapacity =>
    /\ capacity' = IF capacity = 0 THEN 0 ELSE capacity - 1
    /\ UNCHANGED <<currentServerIndex, alive, maxCapacity, numServers>>

\* C23: ReleaseCapacity never blocks (the call can be taken in every state); with
\* no slot held it leaves the held count at 0, with k > 0 slots held it reduces
\* the count by exactly one. The count is never negative.
C23_ReleaseCapacity ==
  /\ [](capacity >= 0 /\ ENABLED CallReleaseCapacity)
  /\ [][C23_Step]_vars

\* C23 witness: ReleaseCapacity has just been called with no slot held and the
\* count is 0.
C23_Witness ==
  /\ poolOp.op = "ReleaseCapacity"
  /\ poolOp.held = 0
  /\ capacity = 0

----------------------------------------------------------------------------
(***************************************************************************)
(* More properties of the proxy pool.                                      *)
(***************************************************************************)

\* A request that leaves the acquire while every slot is held.
C24_Step ==
  \A r \in Requests :
    (pc[r] = "acquire" /\ capacity = maxCapacity /\ pc'[r] # "acquire") =>
      /\ result'[r] = "ErrNoCapacity"
      /\ pc'[r] = "done"
      /\ srv'[r] = NoServer /\ iter'[r] = 0 /\ ~held'[r]
      /\ UNCHANGED <<currentServerIndex, capacity, alive>>

\* C24: a NextServer call whose acquire ends while all maxCapacity slots are held
\* returns ErrNoCapacity (not ErrNoServers, not ErrNoHealthyServers), has examined
\* no backend, and leaves the cursor and the held count as they were; the caller
\* holds no slot.
C24_NoCapacity ==
  /\ [](\A r \in Requests : result[r] = "ErrNoCapacity" => srv[r] = NoServer /\ ~held[r])
  /\ [][C24_Step]_vars

\* C24 witness: a request was refused with ErrNoCapacity while the only slot of a
\* pool without backends is held by another request.
C24_Witness ==
  /\ numServers = 0
  /\ capacity = maxCapacity
  /\ \E r, q \in Requests : r # q /\ result[r] = "ErrNoCapacity" /\ pc[r] = "done" /\ held[q]

\* Request r is inside the scan loop of NextServer.
Scanning(r) == pc[r] \in {"read", "load", "store", "test"}

\* One iteration of the scan loop: the slot at the cursor is the one examined,
\* the store leaves the cursor one past it modulo the number of backends,
\* whatever that backend's flag, and nothing else moves the cursor.
C25_Step ==
  /\ \A r \in Requests :
       /\ (pc[r] = "read" /\ pc'[r] = "load") => srv'[r] = currentServerIndex
       /\ (pc[r] = "store" /\ pc'[r] = "test") =>
            currentServerIndex' = (srv[r] + 1) % numServers
  /\ currentServerIndex' # currentServerIndex =>
       \E r \in Requests : pc[r] = "store" /\ pc'[r] = "test"

\* C25: with N >= 1 backends the cursor stays in [0, N) over any sequence of
\* NextServer calls made one after the other (health changes in between), every examined slot advances it by exactly one modulo N
\* whether or not the backend is alive, and a call examines at most 2N slots.
\* With N = 0 the call returns ErrNoServers and never enters the scan loop.
C25_Cursor ==
  /\ [](/\ numServers >= 1 => currentServerIndex \in 0..(numServers - 1)
        /\ \A r \in Requests :
             /\ Scanning(r) => (numServers >= 1 /\ iter[r] < 2 * numServers)
             /\ (numServers = 0 /\ pc[r] = "done" /\ held[r]) =>
                  (result[r] = "ErrNoServers" /\ srv[r] = NoServer))
  /\ [][C25_Step]_vars

\* C25 witness: with two backends a call is in its last permitted iteration, has
\* examined a dead backend and the cursor is one past it.
C25_Witness ==
  /\ numServers = 2
  /\ \E r \in Requests :
       /\ pc[r] = "test"
       /\ iter[r] = 2 * numServers - 1
       /\ ~alive[srv[r]]
       /\ currentServerIndex = (srv[r] + 1) % numServers

\* C26: the read-and-advance of the cursor is atomic: the store of a request
\* moves the cursor one past the slot that request examined, which is the slot
\* the cursor is on at the store (no other request has read or moved the cursor
\* in between), so that concurrent calls over live backends never return one
\* backend twice while skipping another.
C26_AtomicSelection ==
  [][\A r \in Requests :
       (pc[r] = "store" /\ pc'[r] = "test") =>
         /\ srv[r] = currentServerIndex
         /\ currentServerIndex' = NextIndex(currentServerIndex)]_vars

\* A probe tick of backend s with outcome o.
ProbeTick(s, o) == HealthCheck(s, ~ProbeFailed(o))

\* Who writes the alive flags, and what.
C27_Step ==
  /\ \A s \in Servers, o \in ProbeOutcomes :
       ProbeTick(s, o) =>
         /\ alive'[s] = (o = "200")
         /\ \A t \in ServerIdx \ {s} : alive'[t] = alive[t]
  /\ alive' # alive => \E s \in Servers, o \in ProbeOutcomes : ProbeTick(s, o)

\* C27: a probe tick of a backend sets that backend's alive flag and no other, to
\* true when the probe returned status 200 and to false on a transport error or
\* any other status; nothing but a probe tick changes an alive flag (no step of a
\* request does: acquire, selection, forwarding, release); and a probe with any
\* outcome can follow whatever the flag currently is.
C27_HealthMonitoring ==
  /\ [](\A s \in Servers, o \in ProbeOutcomes : ENABLED ProbeTick(s, o))
  /\ [][C27_Step]_vars

\* C27 witness: of two backends the first has been marked dead by its probe and
\* the second is still alive, while a request is being forwarded to the second.
C27_Witness ==
  /\ numServers = 2
  /\ ~alive[0] /\ alive[1]
  /\ \E r \in Requests : pc[r] = "serve" /\ srv[r] = 1

----------------------------------------------------------------------------
(***************************************************************************)
(* Properties of the round-robin strategy: rotation.                       *)
(***************************************************************************)

\* The client at offset k of the lap that starts at index idx of rotation `order`.
LapClient(order, idx, k) == order[((idx + k) % Len(order)) + 1]

\* The offsets of the lap from idx at which a client has a pending job.
LapPending(cl, order, idx) ==
  {k \in 0..(Len(order) - 1) : Len(cl[LapClient(order, idx, k)].pendingJobs) > 0}

\* What C28 says processNextJob does when it runs below capacity on the clients
\* map cl, rotation `order` and index idx, leaving the map cl2 and the index idx2
\* and dispatching the jobs `started`.
C28_Contract(cl, order, idx, cl2, idx2, started) ==
  LET pending == LapPending(cl, order, idx)
  IN IF Len(order) = 0 \/ pending = {}
       THEN started = {} /\ idx2 = idx /\ cl2 = cl
       ELSE LET k == CHOOSE k \in pending : \A m \in pending : k <= m
                c == LapClient(order, idx, k)
            IN /\ started = {Head(cl[c].pendingJobs)}
               /\ cl2 = [cl EXCEPT ![c].pendingJobs = Tail(@)]
               /\ idx2 = (idx + k + 1) % Len(order)

\* The two callers of processNextJob: processJob after it has moved the job to
\* completedJobs, and RegisterJob of the client at the cursor after it has queued
\* the job.
C28_Step ==
  /\ \A j \in activeJobs \ activeJobs' :
       Cardinality(activeJobs') < rrCapacity =>
         C28_Contract(clients, clientOrder, currentIndex,
                      clients', currentIndex', rrTasks' \ rrTasks)
  /\ (/\ lastOp'.op = "RegisterJob" /\ lastOp'.err = "nil"
      /\ nextJob' # nextJob
      /\ clientOrder[currentIndex + 1] = lastOp'.client
      /\ Cardinality(activeJobs') < rrCapacity) =>
       C28_Contract([clients EXCEPT ![lastOp'.client].pendingJobs = Append(@, nextJob),
                                    ![lastOp'.client].LastActive = now],
                    clientOrder, currentIndex,
                    clients', currentIndex', rrTasks' \ rrTasks)

\* C28: processNextJob run below capacity examines the clients in rotation order
\* from the cursor for at most one lap; it dispatches exactly the head job of the
\* first client found with a pending job, removes that job from the client's
\* queue and leaves the cursor one past that client; with no pending job
\* anywhere it dispatches nothing and the cursor ends where it started.
C28_DispatchStep == [][C28_Step]_vars

\* C28 witness: a job has completed and the dispatch that followed passed over
\* the client at the cursor, which had nothing pending, and started the job of
\* the other client: that job runs, the cursor is back on the client after it.
C28_Witness ==
  /\ Len(clientOrder) = 2
  /\ DOMAIN completedJobs = {1}
  /\ rrTasks = {2}
  /\ activeJobs = {2}
  /\ currentIndex = 1
  /\ \A c \in DOMAIN clients : clients[c].pendingJobs = << >>

\* The position of client c in rotation `order`.
PositionIn(order, c) == CHOOSE i \in 1..Len(order) : order[i] = c

\* C29: the rotation is the clients' registration order (IDs are allotted in
\* registration order), and no step changes the relative order of the clients
\* that stay in the rotation.
C29_RegistrationOrder ==
  /\ [](\A i, k \in 1..Len(clientOrder) : i < k => clientOrder[i] < clientOrder[k])
  /\ [][\A a, b \in DOMAIN clients \cap DOMAIN clients' :
          PositionIn(clientOrder, a) < PositionIn(clientOrder, b) =>
            PositionIn(clientOrder', a) < PositionIn(clientOrder', b)]_vars

\* The IDs in the rotation.
RotationIDs == {clientOrder[i] : i \in 1..Len(clientOrder)}

\* A client leaves the clients map either by its own Deregister call or by the
\* sweep, and by the sweep only when it has been idle for the threshold and has
\* an empty pending queue.
C30_Step ==
  \A c \in DOMAIN clients \ DOMAIN clients' :
    \/ lastOp' # lastOp /\ lastOp'.op = "Deregister" /\ lastOp'.client = c
    \/ /\ now - clients[c].LastActive >= Minute
       /\ clients[c].pendingJobs = << >>

\* C30: the eviction sweep removes a client only if it has been idle for the
\* threshold and its pending queue is empty, so a client with queued jobs is
\* never evicted; and after every operation the cursor is in
\* [0, len(rotation)), or 0 when the rotation is empty, and the rotation holds
\* exactly the IDs of the clients map, each once.
C30_RotationInvariant ==
  /\ [](/\ IF clientOrder = << >> THEN currentIndex = 0
           ELSE currentIndex \in 0..(Len(clientOrder) - 1)
        /\ RotationIDs = DOMAIN clients
        /\ Cardinality(RotationIDs) = Len(clientOrder))
  /\ [][C30_Step]_vars

\* C30 witness: the second client queued the only job ever registered while the
\* first client was at the cursor (capacity 2 would otherwise have dispatched it),
\* and with no API call since, the sweep has evicted the first client and kept
\* the second, which is as idle but has the job queued.
C30_Witness ==
  /\ rrCapacity = 2
  /\ nextClient = 3 /\ nextJob = 2
  /\ lastOp.op = "RegisterJob" /\ lastOp.client = 2 /\ lastOp.job = 1
  /\ clientOrder = <<2>>
  /\ currentIndex = 0
  /\ clients[2].pendingJobs = <<1>>
  /\ now - clients[2].LastActive >= Minute

----------------------------------------------------------------------------
(***************************************************************************)
(* Properties of the round-robin strategy: the jobs of one client.         *)
(***************************************************************************)

\* The jobs waiting in the queue of some client of the map cl.
PendingIn(cl) ==
  UNION {{cl[c].pendingJobs[i] : i \in 1..Len(cl[c].pendingJobs)} : c \in DOMAIN cl}

\* The queue q of client c as RegisterJob leaves it before it calls
\* processNextJob.
QueueAtDispatch(c) ==
  IF lastOp' # lastOp /\ lastOp'.op = "RegisterJob" /\ lastOp'.err = "nil"
       /\ lastOp'.client = c
    THEN Append(clients[c].pendingJobs, nextJob)
    ELSE clients[c].pendingJobs

\* A dispatch takes the head of one client's queue and leaves the rest of that
\* queue in place; jobs enter a queue only at its end, with a fresh ID; a job
\* completes only while its goroutine runs.
C31_Step ==
  /\ \A j \in rrTasks' \ rrTasks :
       \E c \in DOMAIN clients :
         /\ QueueAtDispatch(c) # << >>
         /\ j = Head(QueueAtDispatch(c))
         /\ clients'[c].pendingJobs = Tail(QueueAtDispatch(c))
  /\ \A c \in DOMAIN clients \cap DOMAIN clients' :
       \/ clients'[c].pendingJobs = clients[c].pendingJobs
       \/ clients'[c].pendingJobs = Tail(QueueAtDispatch(c))
       \/ clients'[c].pendingJobs = QueueAtDispatch(c)
  /\ \A j \in DOMAIN completedJobs' \ DOMAIN completedJobs : j \in rrTasks

----------------------------------------------------------------------------
(***************************************************************************)
(* More properties of the single-client strategy.                          *)
(***************************************************************************)

\* A job leaves the jobs map only when its completion was recorded longer ago
\* than the grace period (the session timeout), and a job reported pending is
\* still in the map after the step.
C32_Step ==
  \/ jobs' = jobs
  \/ /\ \A j \in DOMAIN jobs \ DOMAIN jobs' :
          /\ jobs[j].CompletedAt # ZeroTime
          /\ now - jobs[j].CompletedAt > SessionTimeout
     /\ \A j \in JobIDs : SCGetJobStatus(j) = "pending" => j \in DOMAIN jobs'

\* C32: the job sweep removes only jobs whose completion was recorded longer ago
\* than the grace period; a pending job is never removed, so GetJobStatus does
\* not return job-not-found for an accepted job whose completion has not been
\* recorded.
C32_JobSweep ==
  /\ [](\A j \in JobIDs :
          (j < nextJob /\ SCGetJobStatus(j) = "ErrorJobNotFound") => j \notin scTasks)
  /\ [][C32_Step]_vars

\* C32 witness: the sweep has removed the first job, and the second job, accepted
\* since, is pending.
C32_Witness ==
  /\ nextJob = 3
  /\ 1 \notin DOMAIN jobs
  /\ 2 \in scTasks
  /\ SCGetJobStatus(2) = "pending"

\* The completion of a job writes that job's record and nothing else of the
\* balancer.
C33_Step ==
  \A j \in scTasks \ scTasks' :
    /\ j \in DOMAIN jobs' /\ jobs'[j].CompletedAt = now
    /\ DOMAIN jobs' = DOMAIN jobs
    /\ \A k \in DOMAIN jobs \ {j} : jobs'[k] = jobs[k]
    /\ UNCHANGED <<activeClient, waitingClients, scCapacity>>

\* C33: every job accepted by RegisterJob is eventually marked finished, given
\* that its completion goroutine is scheduled, whatever happens to its client in
\* the meantime (deregistered, evicted, another client promoted); the
\* completion changes only that job's record.
C33_CompletionIndependent ==
  /\ \A j \in JobIDs :
       (j \in scTasks) ~> (j \notin scTasks /\ SCGetJobStatus(j) = "finished")
  /\ [][C33_Step]_vars

\* C33 witness: the first client submitted a job and deregistered at time 0,
\* which promoted the second client (active since 0, no API call since); the job
\* was marked finished later, under the second client.
C33_Witness ==
  /\ lastOp.op = "Deregister" /\ lastOp.client = 1 /\ lastOp.err = "nil"
  /\ activeClient.ID = 2 /\ activeClient.LastActive = 0
  /\ nextJob = 2
  /\ 1 \notin scTasks
  /\ 1 \in DOMAIN jobs /\ jobs[1].CompletedAt >= 1

\* C34: in every state between two operations, if no client is active then no
\* client is waiting.
C34_NeverIdleWithQueue == activeClient = NoClient => waitingClients = << >>

\* C34 witness: the first client is gone, the second has been promoted from the
\* waiting sequence at time 1 or later, and the third still waits.
C34_Witness ==
  /\ activeClient # NoClient
  /\ activeClient.ID = 2
  /\ activeClient.LastActive >= 1
  /\ nextJob = 1
  /\ Len(waitingClients) = 1
  /\ waitingClients[1].ID = 3
  /\ waitingClients[1].LastActive = 0

----------------------------------------------------------------------------
(***************************************************************************)
(* Properties of the earlier single-client implementation.                 *)
(***************************************************************************)

\* C35: completeRequest of the earlier implementation records the completion of
\* the job without failing whatever the active client is at that moment (also
\* when nobody is active), and it does not refresh the last-activity of a
\* client other than the one that submitted the job.
C35_CompletionSafe ==
  [][\A t \in scTasks \ scTasks' :
       /\ lastOp'.err # "panic"
       /\ t.job \in DOMAIN jobs => jobs'[t.job].CompletedAt = now
       /\ (activeClient # NoClient /\ activeClient.ID # t.client) =>
            activeClient' = activeClient]_vars

----------------------------------------------------------------------------
(***************************************************************************)
(* Properties of the round-robin strategy: Deregister.                     *)
(***************************************************************************)

\* C36: when a client leaves the clients map, the jobs still waiting in its
\* queue leave the active jobs, whose number the capacity check of
\* processNextJob compares with the capacity.
C36_DeregisterFreesCapacity ==
  [][\A c \in DOMAIN clients \ DOMAIN clients' :
       \A i \in 1..Len(clients[c].pendingJobs) :
         clients[c].pendingJobs[i] \notin activeJobs']_vars

----------------------------------------------------------------------------
(***************************************************************************)
(* More properties of the prototype singleclient.Balancer.                 *)
(***************************************************************************)

\* C37: a client on which DeregisterClient has been called does not become the
\* active client afterwards and is not granted a permit afterwards, whether it
\* was active or queued at the call; stated for the operation that follows the
\* call.
C37_DeregisteredStaysOut ==
  [][\A c \in ProtoClients :
       (protoOp.op = "DeregisterClient" /\ protoOp.client = c) =>
         /\ protoActive' # c
         /\ ~(/\ protoOp'.op = "RequestPermit" /\ protoOp'.client = c
              /\ protoOp'.ret = "true")]_vars

\* The clients in the channel.
Queued == {clientQueue[i] : i \in DOMAIN clientQueue}

\* No call of the API is under way.
NoCallUnderWay == \A k \in Callers : calls[k] = Idle

\* C38: whenever the concurrent RegisterClient and DeregisterClient calls have
\* all returned, every client that RegisterClient returned with a nil error and
\* that DeregisterClient was not called on is the active client or is in the
\* queue, and is not both.
C38_NoClientLost ==
  NoCallUnderWay =>
    \A c \in returned \ deregistered : (protoActive = c) # (c \in Queued)

====
